---------------------------- MODULE Spec2Model ----------------------------
(***************************************************************************)
(* A model of the namespace-resizer controller: the lease store           *)
(* (internal/lock), the lease garbage collector and the per-quota         *)
(* reconcile state machine (internal/controller).                         *)
(*                                                                         *)
(* Time is counted in milliseconds.  Quantities are milli-values          *)
(* (resource.Quantity.MilliValue).  A lease holder identity is a sequence *)
(* of characters, so that formatting and parsing "pr-<n>" are two         *)
(* different computations.  The AcquireTime / RenewTime fields of a lease *)
(* are written for observability only, are never read, and are left out.  *)
(***************************************************************************)
EXTENDS Integers, Sequences, FiniteSets, TLC

(***************************************************************************)
(* Bounds of the model.                                                    *)
(***************************************************************************)
\* number of clock advances in a behaviour
MaxClock == 3
\* number of pull requests the provider hands out
MaxPR == 2
\* number of admission-failure events that arrive in a behaviour
MaxEvents == 1

(***************************************************************************)
(* Time.                                                                   *)
(***************************************************************************)
Millisecond == 1
Second == 1000 * Millisecond
Minute == 60 * Second
Hour == 60 * Minute

\* time.Time{} : the zero time, for which IsZero() holds
ZeroTime == 0

\* The instants the clock visits: pairs (t, t + 500 ms) every minute, starting
\* one hour after the zero time.
Instant(i) == Hour + (i \div 2) * Minute + (i % 2) * (500 * Millisecond)

\* timestamp.Format(time.RFC3339) followed by time.Parse(time.RFC3339, _):
\* RFC3339 has no fractional seconds, the sub-second part is dropped.
FormatRFC3339(t) == t - (t % Second)

(***************************************************************************)
(* Names.                                                                  *)
(***************************************************************************)
ControllerNamespace == "namespace-resizer-system"
ManagedBy == "namespace-resizer"

\* the (namespace, quota) pair that is reconciled
NS == "team-a"
QuotaName == "compute"

\* fmt.Sprintf("state-%s-%s", targetNS, quotaName)
getLeaseName(targetNS, quotaName) == "state-" \o targetNS \o "-" \o quotaName

(***************************************************************************)
(* Holder identities: "pr-<n>".                                            *)
(***************************************************************************)
Digit == <<"0", "1", "2", "3", "4", "5", "6", "7", "8", "9">>

DigitValue(c) == CHOOSE d \in 0..9 : Digit[d + 1] = c

IsDigit(c) == \E d \in 0..9 : Digit[d + 1] = c

RECURSIVE Decimal(_)
\* the decimal digits of n >= 0
Decimal(n) == IF n < 10 THEN <<Digit[n + 1]>>
              ELSE Decimal(n \div 10) \o <<Digit[(n % 10) + 1]>>

\* a faulty variant of FormatIdentity: fmt.Sprintf("%d", prID)
FormatNumber(prID) == Decimal(prID)

\* fmt.Sprintf("pr-%d", prID)
FormatIdentity(prID) ==
    IF prID < 0 THEN <<"p", "r", "-", "-">> \o Decimal(0 - prID)
    ELSE <<"p", "r", "-">> \o Decimal(prID)

RECURSIVE DigitRun(_)
\* the longest prefix of s made of digits
DigitRun(s) == IF s = <<>> \/ ~IsDigit(Head(s)) THEN <<>>
               ELSE <<Head(s)>> \o DigitRun(Tail(s))

RECURSIVE DecimalValue(_)
DecimalValue(ds) == IF ds = <<>> THEN 0
                    ELSE 10 * DecimalValue(SubSeq(ds, 1, Len(ds) - 1))
                         + DigitValue(ds[Len(ds)])

\* fmt.Sscanf(idStr, "pr-%d", &id): the literal prefix, an optional sign, at
\* least one digit; what follows the number is not looked at.
ScanIdentity(idStr) ==
    IF Len(idStr) < 3 \/ SubSeq(idStr, 1, 3) # <<"p", "r", "-">>
    THEN [ok |-> FALSE, id |-> 0]
    ELSE LET rest   == SubSeq(idStr, 4, Len(idStr))
             signed == rest # <<>> /\ Head(rest) \in {"-", "+"}
             body   == IF signed THEN Tail(rest) ELSE rest
             ds     == DigitRun(body)
         IN  IF ds = <<>> THEN [ok |-> FALSE, id |-> 0]
             ELSE [ok |-> TRUE,
                   id |-> IF signed /\ Head(rest) = "-"
                          THEN 0 - DecimalValue(ds) ELSE DecimalValue(ds)]

(***************************************************************************)
(* Lease records and the lease store.                                      *)
(***************************************************************************)
\* no record under a name (the client's Get returns NotFound)
NoLease == [absent |-> TRUE]

\* lease.Spec.HolderIdentity == nil
NoHolder == <<>>
\* a faulty variant of EngineLabels: the target namespace is not written
EngineLabelsWithoutTarget(targetNS, quotaName) ==
    [targetNs |-> "", quota |-> quotaName, managedBy |-> ManagedBy]

\* the labels AcquireLock and SetLastModified give a record they create
EngineLabels(targetNS, quotaName) ==
    [targetNs |-> targetNS, quota |-> quotaName, managedBy |-> ManagedBy]

\* a lease record: holder identity, the last-modified annotation (ZeroTime
\* when the annotation is absent) and the labels
Lease(holder, lastModified, labels) ==
    [absent |-> FALSE, holder |-> holder, lastModified |-> lastModified,
     labels |-> labels]

\* the outcome of a locker operation: the store afterwards and the error
\* ("" for nil)
Outcome(store, err) == [store |-> store, err |-> err]

(***************************************************************************)
(* LeaseLocker.  Every operation takes the store and returns the store     *)
(* afterwards.  fail names the client call of the operation that returns a *)
(* transient (not NotFound) error: "Get", "Create", "Get2", "Update", or   *)
(* "" when every call succeeds.                                            *)
(***************************************************************************)
TransientError == "transient error"
AlreadyLocked == "lease is already locked"
InvalidIdentity == "invalid lock identity format"
\* a faulty variant of GetLock: the scanned number is taken as an index from 0
GetLockFromZero(store, targetNS, quotaName, fail) ==
    LET lease == store[getLeaseName(targetNS, quotaName)]
    IN  IF fail = "Get" THEN [id |-> 0, err |-> TransientError]
        ELSE IF lease = NoLease THEN [id |-> 0, err |-> ""]
        ELSE IF lease.holder = NoHolder THEN [id |-> 0, err |-> ""]
        ELSE LET scan == ScanIdentity(lease.holder)
             IN  IF ~scan.ok THEN [id |-> 0, err |-> InvalidIdentity]
                 ELSE [id |-> scan.id - 1, err |-> ""]

\* GetLock returns the PR ID if a lock exists, or 0 if not.
GetLock(store, targetNS, quotaName, fail) ==
    LET lease == store[getLeaseName(targetNS, quotaName)]
    IN  IF fail = "Get" THEN [id |-> 0, err |-> TransientError]
        ELSE IF lease = NoLease THEN [id |-> 0, err |-> ""]
        ELSE IF lease.holder = NoHolder THEN [id |-> 0, err |-> ""]
        ELSE LET scan == ScanIdentity(lease.holder)
             IN  IF ~scan.ok THEN [id |-> 0, err |-> InvalidIdentity]
                 ELSE [id |-> scan.id, err |-> ""]

\* a faulty variant of AcquireLock: the holder of the record is not looked at
AcquireLockOverwriting(store, targetNS, quotaName, prID, fail) ==
    LET name     == getLeaseName(targetNS, quotaName)
        identity == FormatIdentity(prID)
        lease    == store[name]
    IN  IF fail = "Get" THEN Outcome(store, TransientError)
        ELSE IF lease = NoLease
        THEN IF fail = "Create" THEN Outcome(store, TransientError)
             ELSE Outcome([store EXCEPT ![name] =
                              Lease(identity, ZeroTime,
                                    EngineLabels(targetNS, quotaName))], "")
        ELSE IF fail = "Update" THEN Outcome(store, TransientError)
        ELSE Outcome([store EXCEPT ![name].holder = identity], "")

AcquireLock(store, targetNS, quotaName, prID, fail) ==
    LET name     == getLeaseName(targetNS, quotaName)
        identity == FormatIdentity(prID)
        lease    == store[name]
    IN  IF fail = "Get" THEN Outcome(store, TransientError)
        ELSE IF lease = NoLease
        THEN IF fail = "Create" THEN Outcome(store, TransientError)
             ELSE Outcome([store EXCEPT ![name] =
                              Lease(identity, ZeroTime,
                                    EngineLabels(targetNS, quotaName))], "")
        ELSE IF lease.holder # NoHolder THEN Outcome(store, AlreadyLocked)
        ELSE IF fail = "Update" THEN Outcome(store, TransientError)
        ELSE Outcome([store EXCEPT ![name].holder = identity], "")

UpdateLock(store, targetNS, quotaName, prID, fail) ==
    LET name  == getLeaseName(targetNS, quotaName)
        lease == store[name]
    IN  IF fail = "Get" THEN Outcome(store, TransientError)
        ELSE IF lease = NoLease THEN Outcome(store, "not found")
        ELSE IF fail = "Update" THEN Outcome(store, TransientError)
        ELSE Outcome([store EXCEPT ![name].holder = FormatIdentity(prID)], "")

\* a faulty variant of ReleaseLockWithTimestamp: the record is deleted
ReleaseLockDeleting(store, targetNS, quotaName, hasTimestamp, timestamp, fail) ==
    LET name  == getLeaseName(targetNS, quotaName)
        lease == store[name]
    IN  IF fail = "Get" THEN Outcome(store, TransientError)
        ELSE IF lease = NoLease THEN Outcome(store, "")
        ELSE IF fail = "Update" THEN Outcome(store, TransientError)
        ELSE Outcome([store EXCEPT ![name] = NoLease], "")

\* ReleaseLockWithTimestamp releases the lock and optionally (hasTimestamp)
\* sets the last-modified annotation, in one update of the record.
ReleaseLockWithTimestamp(store, targetNS, quotaName, hasTimestamp, timestamp, fail) ==
    LET name  == getLeaseName(targetNS, quotaName)
        lease == store[name]
    IN  IF fail = "Get" THEN Outcome(store, TransientError)
        ELSE IF lease = NoLease THEN Outcome(store, "")
        ELSE IF fail = "Update" THEN Outcome(store, TransientError)
        ELSE Outcome([store EXCEPT ![name] =
                         [lease EXCEPT
                             !.lastModified = IF hasTimestamp
                                              THEN FormatRFC3339(timestamp)
                                              ELSE @,
                             !.holder = NoHolder]], "")

\* a faulty variant of ReleaseLock: the release stamps last-modified
ReleaseLockStamping(store, targetNS, quotaName, fail) ==
    ReleaseLockWithTimestamp(store, targetNS, quotaName, TRUE, Instant(1), fail)

\* ReleaseLock releases the lock by clearing the HolderIdentity, but keeps
\* the Lease object.
ReleaseLock(store, targetNS, quotaName, fail) ==
    ReleaseLockWithTimestamp(store, targetNS, quotaName, FALSE, ZeroTime, fail)

\* SetLastModified updates the last-modified timestamp in the lease
\* annotation; a missing record is created first (without holder).
SetLastModified(store, targetNS, quotaName, timestamp, fail) ==
    LET name    == getLeaseName(targetNS, quotaName)
        created == [store EXCEPT ![name] =
                       Lease(NoHolder, ZeroTime, EngineLabels(targetNS, quotaName))]
        found   == IF store[name] = NoLease THEN created ELSE store
    IN  IF fail = "Get" THEN Outcome(store, TransientError)
        ELSE IF store[name] = NoLease /\ fail = "Create"
        THEN Outcome(store, TransientError)
        ELSE IF store[name] = NoLease /\ fail = "Get2"
        THEN Outcome(created, TransientError)
        ELSE IF fail = "Update" THEN Outcome(found, TransientError)
        ELSE Outcome([found EXCEPT ![name].lastModified =
                                       FormatRFC3339(timestamp)], "")

\* a faulty variant of GetLastModified: the annotation is never found
GetLastModifiedUnset(store, targetNS, quotaName, fail) ==
    IF fail = "Get" THEN [time |-> ZeroTime, err |-> TransientError]
    ELSE [time |-> ZeroTime, err |-> ""]

\* GetLastModified returns the last-modified timestamp from the lease, or
\* zero time if not set
GetLastModified(store, targetNS, quotaName, fail) ==
    LET lease == store[getLeaseName(targetNS, quotaName)]
    IN  IF fail = "Get" THEN [time |-> ZeroTime, err |-> TransientError]
        ELSE IF lease = NoLease THEN [time |-> ZeroTime, err |-> ""]
        ELSE [time |-> lease.lastModified, err |-> ""]

\* CheckCooldown returns true if we are still in cooldown period based on
\* LastModified
CheckCooldown(store, targetNS, quotaName, duration, now, fail) ==
    LET lastMod == GetLastModified(store, targetNS, quotaName, fail)
    IN  IF lastMod.err # "" THEN [active |-> FALSE, err |-> lastMod.err]
        ELSE IF lastMod.time = ZeroTime THEN [active |-> FALSE, err |-> ""]
        ELSE [active |-> now < lastMod.time + duration, err |-> ""]

(***************************************************************************)
(* LeaseGarbageCollector.cleanup.  namespaces is the set of namespaces     *)
(* that exist; failing is the set of lease names for which the namespace   *)
(* lookup or the delete call fails (the error is logged and the record is  *)
(* left); listFails says that the List call fails.                         *)
(***************************************************************************)
\* a faulty variant of Listed: the List call has no label selector
ListedAll(store) == {n \in DOMAIN store : store[n] # NoLease}

\* the records the List call selects: label managed-by = namespace-resizer
Listed(store) ==
    {n \in DOMAIN store : store[n] # NoLease /\ store[n].labels.managedBy = ManagedBy}

\* a faulty variant of Orphaned: the namespace is not looked up
OrphanedOrNot(store, namespaces) ==
    {n \in Listed(store) : store[n].labels.targetNs # ""}

\* the listed records the loop deletes
Orphaned(store, namespaces) ==
    {n \in Listed(store) :
        /\ store[n].labels.targetNs # ""
        /\ store[n].labels.targetNs \notin namespaces}

cleanup(store, namespaces, listFails, failing) ==
    IF listFails THEN Outcome(store, TransientError)
    ELSE Outcome([n \in DOMAIN store |->
                     IF n \in Orphaned(store, namespaces) \ failing
                     THEN NoLease ELSE store[n]], "")

(***************************************************************************)
(* Configuration (parseConfig, GetThreshold, GetIncrement).  A threshold   *)
(* is a percentage; an increment factor is kept in hundredths (20 for 0.2  *)
(* or "20%").  A map is a function from resource names.                    *)
(***************************************************************************)
defaultKey == "default"

\* strings.Contains(string(res), family), over the resource names of a quota
Contains(res, family) ==
    CASE family = "cpu"     -> res \in {"cpu", "requests.cpu", "limits.cpu"}
      [] family = "memory"  -> res \in {"memory", "requests.memory", "limits.memory"}
      [] family = "storage" -> res \in {"storage", "requests.storage"}
      [] OTHER              -> FALSE

\* the first family, in the order of the code, whose name res contains
FamilyOf(res) ==
    IF Contains(res, "cpu") THEN "cpu"
    ELSE IF Contains(res, "memory") THEN "memory"
    ELSE IF Contains(res, "storage") THEN "storage"
    ELSE ""

DefaultThreshold == 80
DefaultIncrement == 20
DefaultCooldownMinutes == 60

GetThreshold(config, res) ==
    IF res \in DOMAIN config.Thresholds THEN config.Thresholds[res]
    ELSE IF FamilyOf(res) \in DOMAIN config.Thresholds
         THEN config.Thresholds[FamilyOf(res)]
    ELSE IF defaultKey \in DOMAIN config.Thresholds
         THEN config.Thresholds[defaultKey]
    ELSE DefaultThreshold

\* GetIncrement tries every family res contains, cpu, memory, storage in turn
GetIncrement(config, res) ==
    IF res \in DOMAIN config.IncrementFactors THEN config.IncrementFactors[res]
    ELSE IF Contains(res, "cpu") /\ "cpu" \in DOMAIN config.IncrementFactors
         THEN config.IncrementFactors["cpu"]
    ELSE IF Contains(res, "memory") /\ "memory" \in DOMAIN config.IncrementFactors
         THEN config.IncrementFactors["memory"]
    ELSE IF Contains(res, "storage") /\ "storage" \in DOMAIN config.IncrementFactors
         THEN config.IncrementFactors["storage"]
    ELSE IF defaultKey \in DOMAIN config.IncrementFactors
         THEN config.IncrementFactors[defaultKey]
    ELSE DefaultIncrement

\* The annotations of a namespace that the controller reads, already split
\* by key: enabled and autoMerge hold the annotation's value ("" when the
\* annotation is absent); thresholds and increments hold the parsed
\* "<res>-threshold" / "<res>-increment" values by <res>; cooldownMinutes is
\* the set holding the parsed "cooldown-minutes" value, empty when absent.
Annotations(enabled, autoMerge, thresholds, increments, cooldownMinutes) ==
    [enabled |-> enabled, autoMerge |-> autoMerge, thresholds |-> thresholds,
     increments |-> increments, cooldownMinutes |-> cooldownMinutes]

\* function override: g where defined, f elsewhere
Override(f, g) ==
    [k \in DOMAIN f \cup DOMAIN g |-> IF k \in DOMAIN g THEN g[k] ELSE f[k]]

parseConfig(annotations) ==
    [Thresholds       |-> Override((defaultKey :> DefaultThreshold),
                                   annotations.thresholds),
     IncrementFactors |-> Override((defaultKey :> DefaultIncrement),
                                   annotations.increments),
     Cooldown         |-> IF annotations.cooldownMinutes = {}
                          THEN DefaultCooldownMinutes * Minute
                          ELSE (CHOOSE m \in annotations.cooldownMinutes : TRUE)
                               * Minute]

(***************************************************************************)
(* Quantities and rounding.                                                *)
(***************************************************************************)
\* int64(x / y) for a float quotient: truncation toward zero
Trunc(x, y) == IF x >= 0 THEN x \div y ELSE 0 - ((0 - x) \div y)

\* math.Ceil(x / y) for y > 0
Ceil(x, y) == 0 - ((0 - x) \div y)

BytesPerMi == 1024 * 1024

\* a faulty variant of convertToReadableFormat: the bytes are rounded down
\* to a whole number of Mi
convertToReadableFormatRoundingDown(resName, milliValue) ==
    IF Contains(resName, "memory") \/ Contains(resName, "storage")
    THEN Trunc(milliValue, 1000 * BytesPerMi) * BytesPerMi * 1000
    ELSE milliValue

convertToReadableFormat(resName, milliValue) ==
    IF Contains(resName, "memory") \/ Contains(resName, "storage")
    THEN Ceil(milliValue, 1000 * BytesPerMi) * BytesPerMi * 1000
    ELSE milliValue

(***************************************************************************)
(* Admission-failure events and the deficit calculator.                    *)
(*                                                                         *)
(* An event is [id, lastTimestamp, type, reason, message, involved].  Its  *)
(* message is kept as what the code looks for in it: whether it contains   *)
(* "exceeded quota", the quota name it mentions, and the "requested:       *)
(* <res>=<qty>" pair as a set (empty when that part does not parse).  The  *)
(* involved object is [kind, name], a name being the sequence of its       *)
(* hyphen-separated segments.  objects maps the [kind, name] of every      *)
(* object that exists in the namespace to its workload record              *)
(* [replicas (a set, empty for a nil pointer), current, desired (of a      *)
(* DaemonSet), containers, initContainers, pvcTemplates], the last three   *)
(* being sequences of request maps.                                        *)
(***************************************************************************)
\* strip the last segment (after the last hyphen)
getWorkloadKey(name) == IF Len(name) <= 1 THEN name
                        ELSE SubSeq(name, 1, Len(name) - 1)

\* parseEventMessage: the requested resource and quantity, or an error
parseEventMessage(message) ==
    IF message.requested = {} THEN [ok |-> FALSE, res |-> "", qty |-> 0]
    ELSE LET r == CHOOSE r \in message.requested : TRUE
         IN  [ok |-> TRUE, res |-> r[1], qty |-> r[2]]

\* a faulty variant of isObjectAlive: the object is not looked up
isObjectAliveAlways(objects, ref) == TRUE

isObjectAlive(objects, ref) == ref \in DOMAIN objects

\* reqs[name] of a Go map: the zero value for a missing key
At(m, k) == IF k \in DOMAIN m THEN m[k] ELSE 0

Max(a, b) == IF a >= b THEN a ELSE b

RECURSIVE SumRequests(_)
\* reqs[name] += qty over a sequence of request maps
SumRequests(maps) ==
    IF maps = <<>> THEN <<>>
    ELSE LET rest == SumRequests(Tail(maps))
         IN  [k \in DOMAIN Head(maps) \cup DOMAIN rest |->
                 At(Head(maps), k) + At(rest, k)]

RECURSIVE MaxRequests(_, _)
\* if val > reqs[name] then reqs[name] = val, over the init containers
MaxRequests(reqs, maps) ==
    IF maps = <<>> THEN reqs
    ELSE MaxRequests([k \in DOMAIN reqs \cup
                            {n \in DOMAIN Head(maps) : Head(maps)[n] > At(reqs, n)} |->
                         Max(At(reqs, k), At(Head(maps), k))],
                     Tail(maps))

getPodRequests(spec) == MaxRequests(SumRequests(spec.containers), spec.initContainers)

getPVCRequests(templates) == SumRequests(templates)

\* applySmartCalculation, for missing > 0
applySmartCalculation(spec, pvcTemplates, missing) ==
    LET pod  == getPodRequests(spec)
        pvc  == IF Len(pvcTemplates) > 0 THEN getPVCRequests(pvcTemplates) ELSE <<>>
    IN  [k \in DOMAIN pod \cup DOMAIN pvc |-> (At(pod, k) + At(pvc, k)) * missing]

calculateWorkloadDeficit(objects, evt, failedRes, failedQty) ==
    LET ref     == evt.involved
        default == (failedRes :> failedQty)
        found   == ref \in DOMAIN objects
        w       == objects[ref]
        deficits ==
            CASE ref.kind \in {"StatefulSet", "ReplicaSet"} ->
                    IF found /\ w.replicas # {}
                       /\ (CHOOSE d \in w.replicas : TRUE) > w.current
                    THEN applySmartCalculation(
                             w,
                             IF ref.kind = "StatefulSet" THEN w.pvcTemplates ELSE <<>>,
                             (CHOOSE d \in w.replicas : TRUE) - w.current)
                    ELSE default
              [] ref.kind = "DaemonSet" ->
                    IF found /\ w.desired > w.current
                    THEN applySmartCalculation(w, <<>>, w.desired - w.current)
                    ELSE default
              [] OTHER -> default
    IN  [key |-> getWorkloadKey(ref.name), deficits |-> deficits]

(***************************************************************************)
(* The recommendation engine.  A quota is [name, specHard, hard, used]:    *)
(* spec.hard, status.hard and status.used, maps from resource names to     *)
(* milli-values.                                                           *)
(***************************************************************************)
RECURSIVE Sum(_, _)
\* the sum of f over the finite set S
Sum(f, S) == IF S = {} THEN 0
             ELSE LET x == CHOOSE x \in S : TRUE IN f[x] + Sum(f, S \ {x})

\* the maximum of a non-empty finite set of integers
MaxOf(S) == CHOOSE x \in S : \A y \in S : x >= y

\* a faulty variant of Counted: an event stamped with the very second of
\* lastMod is skipped as well
CountedStrictlyAfter(quota, events, lastMod, now, objects) ==
    {evt \in events :
        /\ ~(evt.lastTimestamp < now - Hour)
        /\ ~(lastMod # ZeroTime /\ evt.lastTimestamp <= lastMod)
        /\ evt.type = "Warning" /\ evt.reason = "FailedCreate"
        /\ evt.message.exceededQuota /\ evt.message.quotaName = quota.name
        /\ parseEventMessage(evt.message).ok
        /\ isObjectAlive(objects, evt.involved)}

\* the events analyzeEvents feeds to the deficit calculator: none of its
\* `continue` statements is taken.  lastMod is what GetLastModified returned
\* (ZeroTime on error).
Counted(quota, events, lastMod, now, objects) ==
    {evt \in events :
        /\ ~(evt.lastTimestamp < now - Hour)
        /\ ~(lastMod # ZeroTime /\ evt.lastTimestamp < lastMod)
        /\ evt.type = "Warning" /\ evt.reason = "FailedCreate"
        /\ evt.message.exceededQuota /\ evt.message.quotaName = quota.name
        /\ parseEventMessage(evt.message).ok
        /\ isObjectAlive(objects, evt.involved)}

\* calculateWorkloadDeficit applied to a counted event
WorkloadDeficit(objects, evt) ==
    calculateWorkloadDeficit(objects, evt, parseEventMessage(evt.message).res,
                             parseEventMessage(evt.message).qty)

\* deficits[rName][key]: the largest value seen for the workload key, for
\* every resource some counted event names
Deficits(objects, counted) ==
    LET wd   == [evt \in counted |-> WorkloadDeficit(objects, evt)]
        rs   == UNION {DOMAIN wd[evt].deficits : evt \in counted}
        keys(r) == {wd[evt].key : evt \in {e \in counted : r \in DOMAIN wd[e].deficits}}
    IN  [r \in rs |->
            [k \in keys(r) |->
                MaxOf({0} \cup {wd[evt].deficits[r] :
                                   evt \in {e \in counted : /\ wd[e].key = k
                                                            /\ r \in DOMAIN wd[e].deficits}})]]

\* totalDeficit: the sum over the workload keys
TotalDeficit(deficits, resName) == Sum(deficits[resName], DOMAIN deficits[resName])

\* Resolve Quota Resource Name (Map cpu -> requests.cpu if needed)
ResolveQuotaResName(quota, resName) ==
    IF resName \in DOMAIN quota.hard THEN resName
    ELSE IF resName = "cpu" THEN "requests.cpu"
    ELSE IF resName = "memory" THEN "requests.memory"
    ELSE IF resName = "storage" THEN "requests.storage"
    ELSE resName

\* the quantity analyzeEvents computes for the deficit of resName
Needed(quota, config, deficits, resName) ==
    LET q         == ResolveQuotaResName(quota, resName)
        baseMilli == At(quota.used, q) + TotalDeficit(deficits, resName)
    IN  convertToReadableFormat(
            q, baseMilli + Trunc(baseMilli * GetIncrement(config, q), 100))

\* analyzeEvents: the recommendation maps it can return.  Two event
\* resources that resolve to the same quota resource are written in the
\* order of a Go map iteration, so either can be the one that stays.
analyzeEvents(quota, config, events, lastMod, now, objects) ==
    LET deficits == Deficits(objects, Counted(quota, events, lastMod, now, objects))
        cand(q)  == {Needed(quota, config, deficits, r) :
                       r \in {r \in DOMAIN deficits :
                                /\ ResolveQuotaResName(quota, r) = q
                                /\ q \in DOMAIN quota.hard
                                /\ Needed(quota, config, deficits, r) > quota.hard[q]}}
        qs       == {q \in DOMAIN quota.hard : cand(q) # {}}
    IN  {m \in [qs -> UNION {cand(q) : q \in qs}] : \A q \in qs : m[q] \in cand(q)}

\* a faulty variant of metricRecommendations: the usage has to be above the
\* threshold, not at it
metricRecommendationsAboveThreshold(quota, config) ==
    LET over(r) == /\ r \in DOMAIN quota.used
                   /\ quota.hard[r] # 0
                   /\ quota.used[r] * 100 > GetThreshold(config, r) * quota.hard[r]
    IN  [r \in {r \in DOMAIN quota.hard : over(r)} |->
            convertToReadableFormat(
                r, Trunc(quota.hard[r] * 100 + quota.hard[r] * GetIncrement(config, r), 100))]

\* calculateRecommendations, A. Metric Analysis
metricRecommendations(quota, config) ==
    LET over(r) == /\ r \in DOMAIN quota.used
                   /\ quota.hard[r] # 0
                   /\ quota.used[r] * 100 >= GetThreshold(config, r) * quota.hard[r]
    IN  [r \in {r \in DOMAIN quota.hard : over(r)} |->
            convertToReadableFormat(
                r, Trunc(quota.hard[r] * 100 + quota.hard[r] * GetIncrement(config, r), 100))]

\* a faulty variant of calculateRecommendations: an event recommendation
\* replaces the metric recommendation of its resource, higher or not
calculateRecommendationsEventFirst(quota, config, eventRecommendations, eventsErr) ==
    LET metric == metricRecommendations(quota, config)
    IN  IF eventsErr
        THEN [recommendations |-> metric, needsResize |-> DOMAIN metric # {}]
        ELSE [recommendations |-> Override(metric, eventRecommendations),
              needsResize |-> DOMAIN metric # {} \/ DOMAIN eventRecommendations # {}]

\* calculateRecommendations, given the map analyzeEvents returned; eventsErr
\* says that analyzeEvents returned an error (the List call failed)
calculateRecommendations(quota, config, eventRecommendations, eventsErr) ==
    LET metric == metricRecommendations(quota, config)
        higher == {r \in DOMAIN eventRecommendations :
                      r \notin DOMAIN metric \/ eventRecommendations[r] > metric[r]}
    IN  IF eventsErr
        THEN [recommendations |-> metric, needsResize |-> DOMAIN metric # {}]
        ELSE [recommendations |->
                  [r \in DOMAIN metric \cup higher |->
                      IF r \in higher THEN eventRecommendations[r] ELSE metric[r]],
              needsResize |-> DOMAIN metric # {} \/ higher # {}]

\* 1. Detect No-Op
\* a faulty variant of isNoop: the recommendation is compared with status.hard
isNoopAgainstStatus(quota, recommendations) ==
    \A res \in DOMAIN recommendations :
        res \in DOMAIN quota.hard /\ quota.hard[res] = recommendations[res]

isNoop(quota, recommendations) ==
    \A res \in DOMAIN recommendations :
        res \in DOMAIN quota.specHard /\ quota.specHard[res] = recommendations[res]

(***************************************************************************)
(* The pull-request provider.  A pull request is "none" before CreatePR has *)
(* returned its number, then "open", "merged" or "closed".  What           *)
(* GetPRStatus reports about mergeability is the provider's to choose.     *)
(***************************************************************************)
PRStatus(isOpen, isMerged, mergeable, mergeableState, checksState, checksTotalCount) ==
    [IsOpen |-> isOpen, IsMerged |-> isMerged, Mergeable |-> mergeable,
     MergeableState |-> mergeableState, ChecksState |-> checksState,
     ChecksTotalCount |-> checksTotalCount]

\* the status record before GetPRStatus has been called
NoStatus == PRStatus(FALSE, FALSE, FALSE, "", "", 0)

\* what the provider can report for an open pull request
OpenStatuses ==
    {PRStatus(TRUE, FALSE, TRUE, "clean", "success", 1),
     PRStatus(TRUE, FALSE, TRUE, "blocked", "success", 1),
     PRStatus(TRUE, FALSE, TRUE, "blocked", "", 0),
     PRStatus(TRUE, FALSE, TRUE, "blocked", "pending", 1),
     PRStatus(TRUE, FALSE, FALSE, "blocked", "success", 1),
     PRStatus(TRUE, FALSE, FALSE, "dirty", "success", 1),
     PRStatus(TRUE, FALSE, FALSE, "unknown", "", 0)}

\* the statuses GetPRStatus can return for a pull request
StatusesOf(pr) ==
    CASE pr = "open"   -> OpenStatuses
      [] pr = "merged" -> {PRStatus(FALSE, TRUE, FALSE, "unknown", "", 0)}
      [] pr = "closed" -> {PRStatus(FALSE, FALSE, FALSE, "unknown", "", 0)}
      [] OTHER               -> {}

\* a faulty variant of IsUnknown: no mergeable state is taken for unknown
IsUnknownNever(status) == FALSE

\* strings.ToLower(status.MergeableState) == "unknown"
IsUnknown(status) == status.MergeableState \in {"unknown", "UNKNOWN", "Unknown"}

\* a faulty variant of canAttemptMerge: status.Mergeable is not looked at
canAttemptMergeByState(status) ==
    \/ status.MergeableState = "clean"
    \/ /\ status.MergeableState = "blocked"
       /\ (status.ChecksState = "success" \/ status.ChecksTotalCount = 0)

canAttemptMerge(status) ==
    /\ status.Mergeable
    /\ \/ status.MergeableState = "clean"
       \/ /\ status.MergeableState = "blocked"
          /\ (status.ChecksState = "success" \/ status.ChecksTotalCount = 0)

\* shouldAutoMerge: the process flag, unless the namespace opts out
shouldAutoMerge(enableAutoMerge, annotations) ==
    IF annotations.autoMerge = "false" THEN FALSE ELSE enableAutoMerge

(***************************************************************************)
(* State.                                                                  *)
(***************************************************************************)
VARIABLES
    clock,            \* the number of clock advances so far
    leases,           \* the lease store of the controller namespace, by name
    namespaces,       \* the namespaces that exist in the cluster
    annotations,      \* the annotations of namespace NS
    enableAutoMerge,  \* ResourceQuotaReconciler.EnableAutoMerge
    quota,            \* the quota QuotaName of namespace NS
    events,           \* the events of namespace NS
    prs,              \* the provider's pull requests, by number
    mergedAt,         \* the provider's merged_at of a pull request (whole seconds)
    contributed,      \* the ids of the events that went into a pull request created
    gcLeaseList,      \* the leases a cleanup run has listed and not yet gone through
    acquireLease,     \* the record the Get of a running AcquireLock has read
    manifest,         \* the quota manifest in the repository, branch by branch
    pc,               \* where the tick of (NS, QuotaName) stands
    recommendations,  \* the tick's recommendation map
    needsResize,      \* the tick's needsResize
    prID,             \* the tick's prID / newPRID
    status,           \* the tick's PR status
    analysis,         \* what the tick's analyzeEvents read and counted
    trace,            \* the calls the tick has made, "<call>:err" for a failed one
    result            \* what the last tick returned

raceVars == <<gcLeaseList, acquireLease>>

\* the branches of the repository and the file of the quota in each: the
\* base branch holds the manifest, the branch of a pull request the edited one
Branches == {"main", "resize"}
NoFile == [absent |-> TRUE]
NoManifests == [b \in Branches |-> NoFile]
envVars == <<namespaces, annotations, enableAutoMerge, quota, events>>
localVars == <<recommendations, needsResize, prID, status, analysis>>
tickVars == <<pc, recommendations, needsResize, prID, status, analysis, trace, result>>
vars == <<clock, leases, namespaces, annotations, enableAutoMerge, quota, events,
          prs, mergedAt, contributed, raceVars, manifest, pc, recommendations, needsResize, prID, status, analysis, trace,
          result>>

\* time.Now()
Now == Instant(clock)

LeaseKey == getLeaseName(NS, QuotaName)

\* the record of (NS, QuotaName)
TheLease == leases[LeaseKey]

Held == TheLease # NoLease /\ TheLease.holder # NoHolder

\* ctrl.Result and the error a tick returns
Result(err, requeue, requeueAfter) ==
    [err |-> err, requeue |-> requeue, requeueAfter |-> requeueAfter]

NoResult == Result("", FALSE, 0)

NoAnalysis == [counted |-> {}, leaseLastModified |-> ZeroTime, readOk |-> TRUE,
               deficits |-> <<>>, contributing |-> {}]

(***************************************************************************)
(* The inputs of the model.                                                *)
(***************************************************************************)
Quota(specHard, hard, used) ==
    [name |-> QuotaName, specHard |-> ("cpu" :> specHard), hard |-> ("cpu" :> hard),
     used |-> ("cpu" :> used)]

\* low usage; usage over the threshold; usage over the threshold while
\* spec.hard already has the value the controller would recommend
QuotaChoices == {Quota(1000, 1000, 500), Quota(1000, 1000, 900), Quota(1200, 1000, 900)}

NoAnnotations == Annotations("", "", <<>>, <<>>, {})

\* the namespace annotations and the process flag the controller runs with
Setups ==
    {<<Annotations("", "true", <<>>, <<>>, {}), FALSE>>,
     <<Annotations("true", "", <<>>, <<>>, {1}), TRUE>>,
     <<Annotations("", "false", <<>>, <<>>, {1}), TRUE>>,
     <<Annotations("false", "", <<>>, <<>>, {1}), FALSE>>}

\* the pods admission failed for: one workload per event
PodOf(k) == [kind |-> "Pod", name |-> <<"app", Digit[k + 1], "0">>]

Objects == [ref \in {PodOf(k) : k \in 1..(MaxEvents + 1)} |-> <<>>]

\* the k-th admission-failure event, seen at time t
AdmissionFailure(k, t) ==
    [id |-> k, lastTimestamp |-> FormatRFC3339(t), type |-> "Warning",
     reason |-> "FailedCreate",
     message |-> [exceededQuota |-> TRUE, quotaName |-> QuotaName,
                  requested |-> {<<"cpu", 400>>}],
     involved |-> PodOf(k)]

Init ==
    /\ clock = 0
    /\ leases = (LeaseKey :> NoLease)
    /\ namespaces = {NS}
    /\ \E setup \in Setups : annotations = setup[1] /\ enableAutoMerge = setup[2]
    /\ quota \in QuotaChoices
    /\ events = {}
    /\ prs = [id \in 1..MaxPR |-> "none"]
    /\ mergedAt = [id \in 1..MaxPR |-> ZeroTime]
    /\ contributed = {}
    /\ gcLeaseList = {}
    /\ acquireLease = NoLease
    /\ manifest = NoManifests
    /\ pc = "idle"
    /\ recommendations = <<>>
    /\ needsResize = FALSE
    /\ prID = 0
    /\ status = NoStatus
    /\ analysis = NoAnalysis
    /\ trace = {}
    /\ result = NoResult

(***************************************************************************)
(* The environment.                                                        *)
(***************************************************************************)
Advance ==
    /\ clock < MaxClock
    /\ clock' = clock + 1
    /\ UNCHANGED <<leases, envVars, prs, mergedAt, contributed, raceVars, manifest, tickVars>>

\* usage changes, or the GitOps reconciler applies a manifest
QuotaChanges ==
    /\ pc = "idle"
    /\ \E q \in QuotaChoices \ {quota} : quota' = q
    /\ UNCHANGED <<clock, leases, namespaces, annotations, enableAutoMerge, events,
                   prs, mergedAt, contributed, raceVars, manifest, tickVars>>

\* the namespace is annotated resizer.io/enabled = "false"
OptOut ==
    /\ pc = "idle"
    /\ annotations.enabled # "false"
    /\ annotations' = [annotations EXCEPT !.enabled = "false"]
    /\ UNCHANGED <<clock, leases, namespaces, enableAutoMerge, quota, events,
                   prs, mergedAt, contributed, raceVars, manifest, tickVars>>

\* the admission controller rejects a pod of a new workload
EventArrives ==
    /\ pc = "idle"
    /\ NS \in namespaces
    /\ Cardinality(events) < MaxEvents
    /\ events' = events \cup {AdmissionFailure(Cardinality(events) + 1, Now)}
    /\ UNCHANGED <<clock, leases, namespaces, annotations, enableAutoMerge, quota,
                   prs, mergedAt, contributed, raceVars, manifest, tickVars>>

\* somebody merges an open pull request
ProviderMerge(id) ==
    /\ prs[id] = "open"
    /\ prs' = [prs EXCEPT ![id] = "merged"]
    /\ mergedAt' = [mergedAt EXCEPT ![id] = FormatRFC3339(Now)]
    /\ UNCHANGED <<contributed, raceVars, manifest>>
    /\ UNCHANGED <<clock, leases, envVars, tickVars>>

\* somebody closes an open pull request without merging it
ProviderClose(id) ==
    /\ prs[id] = "open"
    /\ prs' = [prs EXCEPT ![id] = "closed"]
    /\ UNCHANGED <<mergedAt, contributed, raceVars, manifest>>
    /\ UNCHANGED <<clock, leases, envVars, tickVars>>

\* the namespace is deleted, and its quota and events with it
DeleteNamespace ==
    /\ NS \in namespaces
    /\ namespaces' = namespaces \ {NS}
    /\ events' = {}
    /\ UNCHANGED <<clock, leases, annotations, enableAutoMerge, quota, prs, mergedAt, contributed, raceVars, manifest,
                   tickVars>>

\* the namespace is created again with the same quota
CreateNamespace ==
    /\ NS \notin namespaces
    /\ namespaces' = namespaces \cup {NS}
    /\ UNCHANGED <<clock, leases, annotations, enableAutoMerge, quota, events, prs,
                   mergedAt, contributed, raceVars, manifest, tickVars>>

(***************************************************************************)
(* The garbage collector: one cleanup run.                                 *)
(***************************************************************************)
GCRun ==
    /\ \E listFails \in BOOLEAN, failing \in SUBSET DOMAIN leases :
          leases' = cleanup(leases, namespaces, listFails, failing).store
    /\ UNCHANGED <<clock, envVars, prs, mergedAt, contributed, raceVars, manifest, tickVars>>

(***************************************************************************)
(* The reconcile tick of (NS, QuotaName).  The platform's work queue runs  *)
(* the ticks of one key one after the other; a tick is a sequence of       *)
(* steps, one for each call whose answer depends on the lease store or on  *)
(* the provider, and the environment and the garbage collector run         *)
(* between the steps.  In every step fail names the call that fails.       *)
(***************************************************************************)
\* the tick returns
Return(res, tr) ==
    /\ pc' = "done"
    /\ result' = res
    /\ trace' = tr
    /\ recommendations' = <<>>
    /\ needsResize' = FALSE
    /\ prID' = 0
    /\ status' = NoStatus
    /\ analysis' = NoAnalysis

\* the tick returns from handleActivePR; st is the status GetPRStatus gave
ReturnWithStatus(res, tr, st) ==
    /\ pc' = "done"
    /\ result' = res
    /\ trace' = tr
    /\ recommendations' = <<>>
    /\ needsResize' = FALSE
    /\ prID' = 0
    /\ status' = st
    /\ analysis' = NoAnalysis

\* the tick goes on to its next call
Goto(next, tr) ==
    /\ pc' = next
    /\ trace' = tr
    /\ UNCHANGED result

\* a faulty variant of optedOut: a namespace without the annotation is
\* opted out as well
optedOutByDefault(nsAnnotations) == nsAnnotations.enabled \in {"", "false"}

\* 3. Check Opt-Out
optedOut(nsAnnotations) == nsAnnotations.enabled = "false"

\* Reconcile, steps 1 to 5: fetch the quota and the namespace, check the
\* opt-out, parse the configuration and calculate the recommendations.
TickStart ==
    /\ pc = "idle"
    /\ \E fail \in {"", "GetQuota", "GetNamespace", "ListEvents", "GetLastModified"} :
          \/ /\ fail = "GetQuota"
             /\ Return(Result(TransientError, FALSE, 0), {"GetQuota:err"})
          \/ /\ fail # "GetQuota"
             /\ NS \notin namespaces
             /\ Return(NoResult, {})
          \/ /\ fail = "GetNamespace"
             /\ NS \in namespaces
             /\ Return(Result(TransientError, FALSE, 0), {"GetNamespace:err"})
          \/ /\ fail \notin {"GetQuota", "GetNamespace"}
             /\ NS \in namespaces
             /\ optedOut(annotations)
             /\ Return(NoResult, {})
          \/ /\ fail \notin {"GetQuota", "GetNamespace"}
             /\ NS \in namespaces
             /\ ~optedOut(annotations)
             /\ LET config  == parseConfig(annotations)
                    read    == GetLastModified(leases, NS, QuotaName,
                                   IF fail = "GetLastModified" THEN "Get" ELSE "")
                    counted == IF fail = "ListEvents" THEN {}
                               ELSE Counted(quota, events, read.time, Now, Objects)
                IN  \E eventRecommendations \in
                        (IF fail = "ListEvents" THEN {<<>>}
                         ELSE analyzeEvents(quota, config, events, read.time, Now, Objects)) :
                      LET calc == calculateRecommendations(
                                      quota, config, eventRecommendations,
                                      fail = "ListEvents")
                      IN  /\ recommendations' = calc.recommendations
                          /\ needsResize' = calc.needsResize
                          /\ analysis' =
                                [counted |-> counted,
                                 leaseLastModified |->
                                     GetLastModified(leases, NS, QuotaName, "").time,
                                 readOk |-> read.err = "",
                                 deficits |-> Deficits(Objects, counted),
                                 contributing |->
                                     IF \E res \in DOMAIN eventRecommendations :
                                           /\ res \in DOMAIN calc.recommendations
                                           /\ calc.recommendations[res] =
                                                  eventRecommendations[res]
                                     THEN counted ELSE {}]
                          /\ Goto("GetLock",
                                  IF fail = "" THEN {} ELSE {fail \o ":err"})
                          /\ UNCHANGED <<prID, status>>
    /\ UNCHANGED <<clock, leases, envVars, prs, mergedAt, contributed, raceVars, manifest>>

\* Reconcile, step 6: check the lock, then handleNewProposal up to its
\* cooldown check when the lock is free and a resize is needed.
TickGetLock ==
    /\ pc = "GetLock"
    /\ \E fail \in {"", "Get"} :
          LET lock == GetLock(leases, NS, QuotaName, fail)
          IN  \/ /\ lock.err # ""
                 /\ Return(Result(lock.err, FALSE, 0), trace \cup {"GetLock", "GetLock:err"})
              \/ /\ lock.err = ""
                 /\ lock.id # 0
                 /\ prID' = lock.id
                 /\ analysis' = NoAnalysis
                 /\ Goto("GetPRStatus", trace \cup {"GetLock"})
                 /\ UNCHANGED <<recommendations, needsResize, status>>
              \/ /\ lock.err = ""
                 /\ lock.id = 0
                 /\ ~needsResize
                 /\ Return(Result("", FALSE, 5 * Minute), trace \cup {"GetLock"})
              \/ /\ lock.err = ""
                 /\ lock.id = 0
                 /\ needsResize
                 /\ isNoop(quota, recommendations)
                 /\ Return(Result("", FALSE, 10 * Minute), trace \cup {"GetLock"})
              \/ /\ lock.err = ""
                 /\ lock.id = 0
                 /\ needsResize
                 /\ ~isNoop(quota, recommendations)
                 /\ Goto("GetLastModified", trace \cup {"GetLock"})
                 /\ UNCHANGED <<recommendations, needsResize, prID, status, analysis>>
    /\ UNCHANGED <<clock, leases, envVars, prs, mergedAt, contributed, raceVars, manifest>>

\* a faulty variant of AfterMerge: UpdatePR is called whether a resize is
\* needed or not
AfterMergeAlwaysUpdating(tr, st) ==
    /\ status' = st
    /\ Goto("UpdatePR", tr)
    /\ UNCHANGED <<recommendations, needsResize, prID, analysis>>

\* handleActivePR: what follows when needsResize decides about UpdatePR
AfterMerge(tr, st) ==
    \/ /\ needsResize
       /\ status' = st
       /\ Goto("UpdatePR", tr)
       /\ UNCHANGED <<recommendations, needsResize, prID, analysis>>
    \/ /\ ~needsResize
       /\ ReturnWithStatus(Result("", FALSE, 5 * Minute), tr, st)

\* handleActivePR: fetch the status of the held pull request and decide
TickGetPRStatus ==
    /\ pc = "GetPRStatus"
    /\ LET tr == trace \cup {"GetPRStatus"}
       IN  \/ Return(Result(TransientError, FALSE, 0), tr \cup {"GetPRStatus:err"})
           \/ /\ prID \notin DOMAIN prs
              /\ Return(Result("not found", FALSE, 0), tr \cup {"GetPRStatus:err"})
           \/ /\ prID \in DOMAIN prs
              /\ \E st \in StatusesOf(prs[prID]) :
                    \/ /\ ~st.IsOpen
                       /\ status' = st
                       /\ Goto(IF st.IsMerged THEN "SetLastModified" ELSE "ReleaseLock", tr)
                       /\ UNCHANGED <<recommendations, needsResize, prID, analysis>>
                    \/ /\ st.IsOpen
                       /\ shouldAutoMerge(enableAutoMerge, annotations)
                       /\ IsUnknown(st)
                       /\ ReturnWithStatus(Result("", FALSE, 15 * Second), tr, st)
                    \/ /\ st.IsOpen
                       /\ shouldAutoMerge(enableAutoMerge, annotations)
                       /\ ~IsUnknown(st)
                       /\ canAttemptMerge(st)
                       /\ status' = st
                       /\ Goto("MergePR", tr)
                       /\ UNCHANGED <<recommendations, needsResize, prID, analysis>>
                    \/ /\ st.IsOpen
                       /\ ~(/\ shouldAutoMerge(enableAutoMerge, annotations)
                            /\ (IsUnknown(st) \/ canAttemptMerge(st)))
                       /\ AfterMerge(tr, st)
    /\ UNCHANGED <<clock, leases, envVars, prs, mergedAt, contributed, raceVars, manifest>>

\* handleActivePR, the pull request is merged: SetLastModified(time.Now());
\* its error is logged and the tick goes on
TickSetLastModified ==
    /\ pc = "SetLastModified"
    /\ \E fail \in {"", "Get", "Create", "Get2", "Update"} :
          LET out == SetLastModified(leases, NS, QuotaName, Now, fail)
          IN  /\ leases' = out.store
              /\ Goto("ReleaseLock",
                      trace \cup {"SetLastModified"} \cup
                      (IF out.err = "" THEN {} ELSE {"SetLastModified:err"}))
    /\ UNCHANGED <<clock, envVars, prs, mergedAt, contributed, raceVars, manifest, localVars>>

\* handleActivePR, the pull request is not open: ReleaseLock
TickReleaseLock ==
    /\ pc = "ReleaseLock"
    /\ \E fail \in {"", "Get", "Update"} :
          LET out == ReleaseLock(leases, NS, QuotaName, fail)
          IN  /\ leases' = out.store
              /\ \/ /\ out.err # ""
                    /\ Return(Result(out.err, FALSE, 0),
                              trace \cup {"ReleaseLock", "ReleaseLock:err"})
                 \/ /\ out.err = ""
                    /\ Return(Result("", TRUE, 0), trace \cup {"ReleaseLock"})
    /\ UNCHANGED <<clock, envVars, prs, mergedAt, contributed, raceVars, manifest>>

\* a faulty variant of TickMergePR: the error of MergePR is returned
TickMergePRReturningError ==
    /\ pc = "MergePR"
    /\ \/ /\ prs[prID] = "open"
          /\ prs' = [prs EXCEPT ![prID] = "merged"]
          /\ mergedAt' = [mergedAt EXCEPT ![prID] = FormatRFC3339(Now)]
          /\ UNCHANGED <<contributed, raceVars, manifest>>
          /\ Return(Result("", TRUE, 0), trace \cup {"MergePR"})
       \/ /\ UNCHANGED <<prs, mergedAt, contributed, raceVars, manifest>>
          /\ Return(Result(TransientError, FALSE, 0), trace \cup {"MergePR", "MergePR:err"})
    /\ UNCHANGED <<clock, leases, envVars>>

\* handleActivePR, auto-merge: MergePR(prID, "squash"); its error is logged
\* and the tick goes on.  The provider refuses to merge what is not open.
TickMergePR ==
    /\ pc = "MergePR"
    /\ \/ /\ prs[prID] = "open"
          /\ prs' = [prs EXCEPT ![prID] = "merged"]
          /\ mergedAt' = [mergedAt EXCEPT ![prID] = FormatRFC3339(Now)]
          /\ UNCHANGED <<contributed, raceVars, manifest>>
          /\ Return(Result("", TRUE, 0), trace \cup {"MergePR"})
       \/ /\ UNCHANGED <<prs, mergedAt, contributed, raceVars, manifest>>
          /\ AfterMerge(trace \cup {"MergePR", "MergePR:err"}, NoStatus)
    /\ UNCHANGED <<clock, leases, envVars>>

\* a faulty variant of TickUpdatePR: the file-not-found error is returned
\* like any other error
TickUpdatePRFailingHard ==
    /\ pc = "UpdatePR"
    /\ \/ Return(Result("", FALSE, 5 * Minute), trace \cup {"UpdatePR"})
       \/ Return(Result(TransientError, FALSE, 0),
                 trace \cup {"UpdatePR", "UpdatePR:err", "ErrFileNotFound"})
       \/ Return(Result(TransientError, FALSE, 0), trace \cup {"UpdatePR", "UpdatePR:err"})
    /\ UNCHANGED <<clock, leases, envVars, prs, mergedAt, contributed, raceVars, manifest>>

\* handleActivePR: UpdatePR with the current recommendations
TickUpdatePR ==
    /\ pc = "UpdatePR"
    /\ \/ Return(Result("", FALSE, 5 * Minute), trace \cup {"UpdatePR"})
       \/ Return(Result("", FALSE, 1 * Minute),
                 trace \cup {"UpdatePR", "UpdatePR:err", "ErrFileNotFound"})
       \/ Return(Result(TransientError, FALSE, 0), trace \cup {"UpdatePR", "UpdatePR:err"})
    /\ UNCHANGED <<clock, leases, envVars, prs, mergedAt, contributed, raceVars, manifest>>

\* handleNewProposal, 2. Smart Cooldown Check, and the recommendation
\* events recorded before the pull request is created
TickGetLastModified ==
    /\ pc = "GetLastModified"
    /\ \E fail \in {"", "Get"} :
          LET lastMod == GetLastModified(leases, NS, QuotaName, fail)
              config  == parseConfig(annotations)
              elapsed == Now - lastMod.time
              tr      == trace \cup {"GetLastModified"}
          IN  \/ /\ lastMod.err # ""
                 /\ Return(Result(lastMod.err, FALSE, 0), tr \cup {"GetLastModified:err"})
              \/ /\ lastMod.err = ""
                 /\ lastMod.time # ZeroTime
                 /\ elapsed < config.Cooldown
                 /\ Return(Result("", FALSE, (config.Cooldown - elapsed) + 1 * Second),
                           tr \cup {"cooldown"})
              \/ /\ lastMod.err = ""
                 /\ ~(lastMod.time # ZeroTime /\ elapsed < config.Cooldown)
                 /\ Goto("CreatePR", tr \cup {"Recorder.Event"})
                 /\ UNCHANGED localVars
    /\ UNCHANGED <<clock, leases, envVars, prs, mergedAt, contributed, raceVars, manifest>>

\* the number the provider gives the next pull request
NextPR == CHOOSE id \in DOMAIN prs :
              prs[id] = "none" /\ \A j \in 1..(id - 1) : prs[j] # "none"

\* a faulty variant of TickCreatePR: the error of CreatePR is logged and the
\* tick goes on to AcquireLock
TickCreatePRIgnoringError ==
    /\ pc = "CreatePR"
    /\ \/ /\ \E id \in DOMAIN prs : prs[id] = "none"
          /\ prs' = [prs EXCEPT ![NextPR] = "open"]
          /\ prID' = NextPR
          /\ Goto("AcquireLock", trace \cup {"CreatePR"})
          /\ UNCHANGED <<mergedAt, contributed, raceVars, manifest, recommendations, needsResize, status, analysis>>
       \/ /\ UNCHANGED <<prs, mergedAt, contributed, raceVars, manifest>>
          /\ Goto("AcquireLock", trace \cup {"CreatePR", "CreatePR:err"})
          /\ UNCHANGED localVars
    /\ UNCHANGED <<clock, leases, envVars>>

\* handleNewProposal, 3. Create PR
TickCreatePR ==
    /\ pc = "CreatePR"
    /\ \/ /\ \E id \in DOMAIN prs : prs[id] = "none"
          /\ prs' = [prs EXCEPT ![NextPR] = "open"]
          /\ contributed' = contributed \cup {evt.id : evt \in analysis.contributing}
          /\ UNCHANGED <<raceVars, manifest>>
          /\ UNCHANGED mergedAt
          /\ prID' = NextPR
          /\ analysis' = NoAnalysis
          /\ Goto("AcquireLock", trace \cup {"CreatePR"})
          /\ UNCHANGED <<recommendations, needsResize, status>>
       \/ /\ UNCHANGED <<prs, mergedAt, contributed, raceVars, manifest>>
          /\ Return(Result("", FALSE, 1 * Minute),
                    trace \cup {"CreatePR", "CreatePR:err", "ErrFileNotFound"})
       \/ /\ UNCHANGED <<prs, mergedAt, contributed, raceVars, manifest>>
          /\ Return(Result(TransientError, FALSE, 0), trace \cup {"CreatePR", "CreatePR:err"})
    /\ UNCHANGED <<clock, leases, envVars>>

\* a faulty variant of TickAcquireLock: with the lock taken, spec.hard of the
\* quota is patched to the recommendations
TickAcquireLockPatchingQuota ==
    /\ pc = "AcquireLock"
    /\ \E fail \in {"", "Get", "Create", "Update"} :
          LET out == AcquireLock(leases, NS, QuotaName, prID, fail)
          IN  /\ leases' = out.store
              /\ \/ /\ out.err # ""
                    /\ quota' = quota
                    /\ Return(Result(out.err, FALSE, 0),
                              trace \cup {"AcquireLock", "AcquireLock:err"})
                 \/ /\ out.err = ""
                    /\ quota' = [quota EXCEPT !.specHard = Override(@, recommendations)]
                    /\ Return(Result("", FALSE, 5 * Minute), trace \cup {"AcquireLock"})
    /\ UNCHANGED <<clock, namespaces, annotations, enableAutoMerge, events, prs, mergedAt, contributed, raceVars, manifest>>
\* a faulty variant of TickAcquireLock: the tick ends without the lock
TickAcquireLockForgetting ==
    /\ pc = "AcquireLock"
    /\ Return(Result("", FALSE, 5 * Minute), trace \cup {"AcquireLock"})
    /\ UNCHANGED <<clock, leases, envVars, prs, mergedAt, contributed, raceVars, manifest>>

\* handleNewProposal: AcquireLock for the pull request just created
TickAcquireLock ==
    /\ pc = "AcquireLock"
    /\ \E fail \in {"", "Get", "Create", "Update"} :
          LET out == AcquireLock(leases, NS, QuotaName, prID, fail)
          IN  /\ leases' = out.store
              /\ \/ /\ out.err # ""
                    /\ Return(Result(out.err, FALSE, 0),
                              trace \cup {"AcquireLock", "AcquireLock:err"})
                 \/ /\ out.err = ""
                    /\ Return(Result("", FALSE, 5 * Minute), trace \cup {"AcquireLock"})
    /\ UNCHANGED <<clock, envVars, prs, mergedAt, contributed, raceVars, manifest>>

\* the work queue takes the result; the key waits for its next tick
TickEnd ==
    /\ pc = "done"
    /\ pc' = "idle"
    /\ result' = NoResult
    /\ trace' = {}
    /\ status' = NoStatus
    /\ UNCHANGED <<clock, leases, envVars, prs, mergedAt, contributed, raceVars, manifest, recommendations, needsResize,
                   prID, analysis>>

Tick ==
    \/ TickStart
    \/ TickGetLock
    \/ TickGetPRStatus
    \/ TickSetLastModified
    \/ TickReleaseLock
    \/ TickMergePR
    \/ TickUpdatePR
    \/ TickGetLastModified
    \/ TickCreatePR
    \/ TickAcquireLock
    \/ TickEnd

Next ==
    \/ Tick
    \/ Advance
    \/ QuotaChanges
    \/ OptOut
    \/ EventArrives
    \/ \E id \in DOMAIN prs : ProviderMerge(id)
    \/ \E id \in DOMAIN prs : ProviderClose(id)
    \/ DeleteNamespace
    \/ CreateNamespace
    \/ GCRun

Spec == Init /\ [][Next]_vars

(***************************************************************************)
(* Fair ticking.  The work queue runs the tick again after every return    *)
(* (requeue, resync or a change of the quota), so the tick is never        *)
(* stopped for good; and a call to the cluster or to the provider that is  *)
(* made again and again does not fail for ever.                            *)
(***************************************************************************)
\* the markers a tick leaves in the trace when a call has failed
Failures ==
    {"GetQuota:err", "GetNamespace:err", "ListEvents:err", "GetLastModified:err",
     "GetLock:err", "GetPRStatus:err", "SetLastModified:err", "ReleaseLock:err",
     "MergePR:err", "UpdatePR:err", "CreatePR:err", "AcquireLock:err"}

\* no call of this step fails
NoCallFails == (trace' \ trace) \cap Failures = {}

\* the tick and the provider, in a namespace that stays and with no garbage
\* collection, no new event and no change of the quota
NextTicking ==
    \/ Tick
    \/ Advance
    \/ \E id \in DOMAIN prs : ProviderMerge(id)
    \/ \E id \in DOMAIN prs : ProviderClose(id)

FairSpec ==
    /\ Init
    /\ [][NextTicking]_vars
    /\ WF_vars(Tick)
    /\ SF_vars(TickStart /\ NoCallFails)
    /\ SF_vars(TickGetLock /\ NoCallFails)
    /\ SF_vars(TickGetPRStatus /\ NoCallFails)
    /\ SF_vars(TickSetLastModified /\ NoCallFails)
    /\ SF_vars(TickReleaseLock /\ NoCallFails)

\* a step of a tick in which no call to the cluster or to the provider fails
CalmTick == Tick /\ NoCallFails

\* ticks whose calls succeed, the clock and the provider: the quota, the
\* annotations and the namespace stay as they are
NextCalm ==
    \/ CalmTick
    \/ Advance
    \/ \E id \in DOMAIN prs : ProviderMerge(id)
    \/ \E id \in DOMAIN prs : ProviderClose(id)

\* the controller is requeued after every tick and time passes
CalmSpec ==
    /\ Init
    /\ [][NextCalm]_vars
    /\ WF_vars(CalmTick)
    /\ WF_vars(Advance)

(***************************************************************************)
(* The lease store on its own: the operations of LeaseLocker that read,    *)
(* acquire and release a record and set its last-modified time, called in  *)
(* any order and with any pull-request number, as a second caller of the   *)
(* same record would.  UpdateLock, which writes the holder of an existing  *)
(* record whatever it holds and which no path of the reconciler calls, is  *)
(* not among them.  trace holds the name of the operation called last,     *)
(* prID its pull-request number (for GetLock the number returned), result  *)
(* its error, analysis.leaseLastModified the time GetLastModified          *)
(* returned.                                                               *)
(***************************************************************************)
LockerInit ==
    /\ clock = 0
    /\ leases = (LeaseKey :> NoLease)
    /\ namespaces = {NS}
    /\ annotations = NoAnnotations
    /\ enableAutoMerge = FALSE
    /\ quota = Quota(1000, 1000, 500)
    /\ events = {}
    /\ prs = [id \in 1..MaxPR |-> "none"]
    /\ mergedAt = [id \in 1..MaxPR |-> ZeroTime]
    /\ contributed = {}
    /\ gcLeaseList = {}
    /\ acquireLease = NoLease
    /\ manifest = NoManifests
    /\ pc = "idle"
    /\ recommendations = <<>>
    /\ needsResize = FALSE
    /\ prID = 0
    /\ status = NoStatus
    /\ analysis = NoAnalysis
    /\ trace = {}
    /\ result = NoResult

lockerFrame == <<namespaces, annotations, enableAutoMerge, quota, events, prs, mergedAt, contributed, raceVars, manifest,
                 pc, recommendations, needsResize, status>>

\* a call of the operation op that returned err
Called(op, id, err) ==
    /\ trace' = {op}
    /\ prID' = id
    /\ result' = Result(err, FALSE, 0)

LockerAdvance ==
    /\ clock < MaxClock
    /\ clock' = clock + 1
    /\ Called("time.Now", 0, "")
    /\ UNCHANGED <<leases, analysis, lockerFrame>>

LockerGetLock ==
    /\ \E fail \in {"", "Get"} :
          LET lock == GetLock(leases, NS, QuotaName, fail)
          IN  Called("GetLock", lock.id, lock.err)
    /\ UNCHANGED <<clock, leases, analysis, lockerFrame>>

LockerAcquireLock ==
    /\ \E id \in 1..MaxPR, fail \in {"", "Get", "Create", "Update"} :
          LET out == AcquireLock(leases, NS, QuotaName, id, fail)
          IN  /\ leases' = out.store
              /\ Called("AcquireLock", id, out.err)
    /\ UNCHANGED <<clock, analysis, lockerFrame>>

LockerReleaseLock ==
    /\ \E fail \in {"", "Get", "Update"} :
          LET out == ReleaseLock(leases, NS, QuotaName, fail)
          IN  /\ leases' = out.store
              /\ Called("ReleaseLock", 0, out.err)
    /\ UNCHANGED <<clock, analysis, lockerFrame>>

LockerReleaseLockWithTimestamp ==
    /\ \E fail \in {"", "Get", "Update"} :
          LET out == ReleaseLockWithTimestamp(leases, NS, QuotaName, TRUE, Now, fail)
          IN  /\ leases' = out.store
              /\ Called("ReleaseLockWithTimestamp", 0, out.err)
    /\ UNCHANGED <<clock, analysis, lockerFrame>>

LockerSetLastModified ==
    /\ \E fail \in {"", "Get", "Create", "Get2", "Update"} :
          LET out == SetLastModified(leases, NS, QuotaName, Now, fail)
          IN  /\ leases' = out.store
              /\ Called("SetLastModified", 0, out.err)
    /\ UNCHANGED <<clock, analysis, lockerFrame>>

LockerGetLastModified ==
    /\ \E fail \in {"", "Get"} :
          LET read == GetLastModified(leases, NS, QuotaName, fail)
          IN  /\ analysis' = [NoAnalysis EXCEPT !.leaseLastModified = read.time,
                                                !.readOk = read.err = ""]
              /\ Called("GetLastModified", 0, read.err)
    /\ UNCHANGED <<clock, leases, lockerFrame>>

LockerNext ==
    \/ LockerAdvance
    \/ LockerGetLock
    \/ LockerAcquireLock
    \/ LockerReleaseLock
    \/ LockerReleaseLockWithTimestamp
    \/ LockerSetLastModified
    \/ LockerGetLastModified

SpecLocker == LockerInit /\ [][LockerNext]_vars

(***************************************************************************)
(* The garbage collector on its own, over a controller namespace that      *)
(* holds the record of (NS, QuotaName), the record of a quota of a second  *)
(* namespace, and a lease of another owner.  trace holds what the last     *)
(* cleanup run did: "cleanup", "List:err" when the List call failed, the   *)
(* names of the records whose namespace lookup or delete call failed, and  *)
(* "deleted <name>" for every record it deleted.                           *)
(***************************************************************************)
OtherNS == "team-b"

OtherLeaseKey == getLeaseName(OtherNS, QuotaName)

\* a lease the controller does not own, e.g. of a leader election
ForeignLeaseKey == "leader-election"

\* what can be found under each name
RecordChoices ==
    (LeaseKey :> {NoLease, Lease(NoHolder, ZeroTime, EngineLabels(NS, QuotaName))}) @@
    (OtherLeaseKey :>
        {NoLease,
         Lease(FormatIdentity(1), ZeroTime, EngineLabels(OtherNS, QuotaName)),
         Lease(NoHolder, ZeroTime,
               [targetNs |-> "", quota |-> QuotaName, managedBy |-> ManagedBy])}) @@
    (ForeignLeaseKey :>
        {NoLease,
         Lease(NoHolder, ZeroTime,
               [targetNs |-> OtherNS, quota |-> "", managedBy |-> "kube-scheduler"]),
         Lease(NoHolder, ZeroTime,
               [targetNs |-> OtherNS, quota |-> "", managedBy |-> ""])})

GCInit ==
    /\ clock = 0
    /\ leases \in [DOMAIN RecordChoices -> UNION {RecordChoices[n] : n \in DOMAIN RecordChoices}]
    /\ \A n \in DOMAIN RecordChoices : leases[n] \in RecordChoices[n]
    /\ namespaces \in SUBSET {NS, OtherNS}
    /\ annotations = NoAnnotations
    /\ enableAutoMerge = FALSE
    /\ quota = Quota(1000, 1000, 500)
    /\ events = {}
    /\ prs = [id \in 1..MaxPR |-> "none"]
    /\ mergedAt = [id \in 1..MaxPR |-> ZeroTime]
    /\ contributed = {}
    /\ gcLeaseList = {}
    /\ acquireLease = NoLease
    /\ manifest = NoManifests
    /\ pc = "idle"
    /\ recommendations = <<>>
    /\ needsResize = FALSE
    /\ prID = 0
    /\ status = NoStatus
    /\ analysis = NoAnalysis
    /\ trace = {}
    /\ result = NoResult

gcFrame == <<clock, annotations, enableAutoMerge, quota, events, prs, mergedAt, contributed, raceVars, manifest, pc,
             recommendations, needsResize, prID, status, analysis>>

\* the records for which cleanup makes a call that can fail
LookedUp(store) == {n \in Listed(store) : store[n].labels.targetNs # ""}

\* one run of cleanup
GCCleanup ==
    /\ \E listFails \in BOOLEAN, failing \in SUBSET DOMAIN leases :
          LET out == cleanup(leases, namespaces, listFails, failing)
          IN  /\ leases' = out.store
              /\ trace' = {"cleanup"} \cup
                          (IF listFails THEN {"List:err"}
                           ELSE failing \cap LookedUp(leases)) \cup
                          {"deleted " \o n : n \in {m \in DOMAIN leases :
                               leases[m] # NoLease /\ out.store[m] = NoLease}}
              /\ result' = Result(out.err, FALSE, 0)
    /\ UNCHANGED <<namespaces, gcFrame>>

\* a namespace is deleted
GCNamespaceDeleted ==
    /\ \E n \in namespaces : namespaces' = namespaces \ {n}
    /\ trace' = {}
    /\ result' = NoResult
    /\ UNCHANGED <<leases, gcFrame>>

\* a namespace is created
GCNamespaceCreated ==
    /\ \E n \in {NS, OtherNS} \ namespaces : namespaces' = namespaces \cup {n}
    /\ trace' = {}
    /\ result' = NoResult
    /\ UNCHANGED <<leases, gcFrame>>

GCNext ==
    \/ GCCleanup
    \/ GCNamespaceDeleted
    \/ GCNamespaceCreated

SpecGC == GCInit /\ [][GCNext]_vars

(***************************************************************************)
(* calculateRecommendations on its own: the usage analysis and the event   *)
(* analysis of one quota, for the quotas, the thresholds and increments    *)
(* and the events below.  The increments are in hundredths, as the         *)
(* thresholds are: "20%" and "0.2" are 20, "0" is 0, "-0.5" is -50.         *)
(***************************************************************************)
\* status.hard of cpu in milli-units, with usage below and at the limit
RecQuotas ==
    {Quota(hard, hard, used) : hard \in {0, 4, 1000}, used \in {2, 4, 500, 850, 1000}}
    \cup {[Quota(1000, 1000, 0) EXCEPT !.used = <<>>]}

\* the "cpu-threshold" and "cpu-increment" annotations parseConfig accepts
RecAnnotations ==
    {Annotations("", "", thresholds, increments, {}) :
        thresholds \in {<<>>, ("cpu" :> 0), ("cpu" :> 50)},
        increments \in {<<>>, ("cpu" :> 0), ("cpu" :> 0 - 50), ("cpu" :> 100)}}

\* no admission failure, or one for a pod that requested 400m of cpu
RecEvents == {{}, {AdmissionFailure(1, Instant(0))}}

recFrame == <<clock, leases, namespaces, enableAutoMerge, prs, mergedAt, contributed, raceVars, manifest, prID, status,
              analysis, trace, result>>

RecInit ==
    /\ clock = 0
    /\ leases = (LeaseKey :> NoLease)
    /\ namespaces = {NS}
    /\ annotations \in RecAnnotations
    /\ enableAutoMerge = FALSE
    /\ quota \in RecQuotas
    /\ events \in RecEvents
    /\ prs = [id \in 1..MaxPR |-> "none"]
    /\ mergedAt = [id \in 1..MaxPR |-> ZeroTime]
    /\ contributed = {}
    /\ gcLeaseList = {}
    /\ acquireLease = NoLease
    /\ manifest = NoManifests
    /\ pc = "idle"
    /\ recommendations = <<>>
    /\ needsResize = FALSE
    /\ prID = 0
    /\ status = NoStatus
    /\ analysis = NoAnalysis
    /\ trace = {}
    /\ result = NoResult

\* calculateRecommendations(ctx, quota, config)
RecCalculate ==
    /\ pc = "idle"
    /\ LET config == parseConfig(annotations)
       IN  \E eventRecommendations \in
                analyzeEvents(quota, config, events, ZeroTime, Now, Objects) :
              LET calc == calculateRecommendations(quota, config, eventRecommendations,
                                                   FALSE)
              IN  /\ recommendations' = calc.recommendations
                  /\ needsResize' = calc.needsResize
    /\ pc' = "done"
    /\ UNCHANGED <<annotations, quota, events, recFrame>>

\* the next call, with another quota, configuration and event list
RecAgain ==
    /\ pc = "done"
    /\ pc' = "idle"
    /\ annotations' \in RecAnnotations
    /\ quota' \in RecQuotas
    /\ events' \in RecEvents
    /\ recommendations' = <<>>
    /\ needsResize' = FALSE
    /\ UNCHANGED recFrame

RecNext ==
    \/ RecCalculate
    \/ RecAgain

SpecRecommend == RecInit /\ [][RecNext]_vars

(***************************************************************************)
(* The event analysis on its own: the loop of analyzeEvents over the       *)
(* events the API server lists, in the order it lists them, for the        *)
(* workloads below.  analysis.counted holds the events fed to the deficit  *)
(* calculator and analysis.deficits the deficits map after the loop.       *)
(***************************************************************************)
MaxListed == 3

\* a workload record; replicas is a set, empty for a nil pointer
Workload(replicas, current, desired, containers, initContainers, pvcTemplates) ==
    [replicas |-> replicas, current |-> current, desired |-> desired,
     containers |-> containers, initContainers |-> initContainers,
     pvcTemplates |-> pvcTemplates]

\* the objects of the namespace: two StatefulSets, three ReplicaSets (the
\* containers of batch-9f8 request nothing), a DaemonSet and three pods
Workloads ==
    ([kind |-> "StatefulSet", name |-> <<"web", "api">>] :>
        Workload({3}, 1, 0, <<("cpu" :> 200) @@ ("memory" :> 50)>>,
                 <<("cpu" :> 300)>>, <<("storage" :> 7)>>))
    @@ ([kind |-> "StatefulSet", name |-> <<"web", "db">>] :>
        Workload({2}, 1, 0, <<("cpu" :> 100)>>, <<>>, <<>>))
    @@ ([kind |-> "ReplicaSet", name |-> <<"app", "6b4">>] :>
        Workload({4}, 1, 0, <<("cpu" :> 100), ("cpu" :> 50) @@ ("memory" :> 20)>>,
                 <<>>, <<>>))
    @@ ([kind |-> "ReplicaSet", name |-> <<"job", "1">>] :>
        Workload({1}, 1, 0, <<("cpu" :> 100)>>, <<>>, <<>>))
    @@ ([kind |-> "ReplicaSet", name |-> <<"batch", "9f8">>] :>
        Workload({2}, 0, 0, << <<>> >>, <<>>, <<>>))
    @@ ([kind |-> "DaemonSet", name |-> <<"agent">>] :>
        Workload({}, 0, 2, <<("cpu" :> 10)>>, <<>>, <<>>))
    @@ ([kind |-> "Pod", name |-> <<"app", "6b4", "x1">>] :>
        Workload({}, 0, 0, <<>>, <<>>, <<>>))
    @@ ([kind |-> "Pod", name |-> <<"app", "6b4", "x2">>] :>
        Workload({}, 0, 0, <<>>, <<>>, <<>>))
    @@ ([kind |-> "Pod", name |-> <<"cron", "7c5", "y1">>] :>
        Workload({}, 0, 0, <<>>, <<>>, <<>>))

\* objects that failed to create pods and have been deleted since: a
\* ReplicaSet of an earlier rollout and a pod
DeletedWorkloads ==
    {[kind |-> "ReplicaSet", name |-> <<"app", "5d9">>],
     [kind |-> "Pod", name |-> <<"app", "5d9", "z1">>]}

\* what the admission failures of the namespace ask for
Requested == {<<"cpu", 200>>, <<"cpu", 500>>, <<"memory", 30>>}

\* an admission failure of ref that asked for req
FailedCreate(ref, req) ==
    [id |-> <<ref, req>>, lastTimestamp |-> FormatRFC3339(Instant(0)),
     type |-> "Warning", reason |-> "FailedCreate",
     message |-> [exceededQuota |-> TRUE, quotaName |-> QuotaName, requested |-> {req}],
     involved |-> ref]

\* the admission failures the namespace can see
ListedEvents ==
    {FailedCreate(ref, req) : ref \in DOMAIN Workloads \cup DeletedWorkloads, req \in Requested}

\* the orders the events of the set es can be listed in
Orders(es) ==
    {listed \in [1..Cardinality(es) -> es] : \A evt \in es : \E i \in DOMAIN listed : listed[i] = evt}

RECURSIVE DeficitsLastWins(_, _)
\* a faulty variant of DeficitsInOrder: the value of the event listed last
\* stays, whatever was stored for the workload key before
DeficitsLastWins(objects, listed) ==
    IF Len(listed) = 0 THEN <<>>
    ELSE LET before == DeficitsLastWins(objects, SubSeq(listed, 1, Len(listed) - 1))
             wd     == WorkloadDeficit(objects, listed[Len(listed)])
             old(r) == IF r \in DOMAIN before THEN before[r] ELSE <<>>
         IN  [r \in DOMAIN before \cup DOMAIN wd.deficits |->
                 IF r \in DOMAIN wd.deficits
                 THEN Override(old(r), (wd.key :> wd.deficits[r]))
                 ELSE old(r)]

RECURSIVE DeficitsInOrder(_, _)
\* 3. Update Deficits (Grouped by Workload Prefix): the deficits map after
\* the loop has gone through the events of listed
DeficitsInOrder(objects, listed) ==
    IF Len(listed) = 0 THEN <<>>
    ELSE LET before == DeficitsInOrder(objects, SubSeq(listed, 1, Len(listed) - 1))
             wd     == WorkloadDeficit(objects, listed[Len(listed)])
             old(r) == IF r \in DOMAIN before THEN before[r] ELSE <<>>
         IN  [r \in DOMAIN before \cup DOMAIN wd.deficits |->
                 IF r \in DOMAIN wd.deficits /\ wd.deficits[r] > At(old(r), wd.key)
                 THEN Override(old(r), (wd.key :> wd.deficits[r]))
                 ELSE old(r)]

analyzeFrame == <<clock, leases, namespaces, annotations, enableAutoMerge, quota, prs,
                  mergedAt, contributed, raceVars, manifest, recommendations, needsResize, prID, status, trace, result>>

AnalyzeInit ==
    /\ clock = 0
    /\ leases = (LeaseKey :> NoLease)
    /\ namespaces = {NS}
    /\ annotations = NoAnnotations
    /\ enableAutoMerge = FALSE
    /\ quota = Quota(1000, 1000, 500)
    /\ events = {}
    /\ prs = [id \in 1..MaxPR |-> "none"]
    /\ mergedAt = [id \in 1..MaxPR |-> ZeroTime]
    /\ contributed = {}
    /\ gcLeaseList = {}
    /\ acquireLease = NoLease
    /\ manifest = NoManifests
    /\ pc = "idle"
    /\ recommendations = <<>>
    /\ needsResize = FALSE
    /\ prID = 0
    /\ status = NoStatus
    /\ analysis = NoAnalysis
    /\ trace = {}
    /\ result = NoResult

\* analyzeEvents up to its deficits map
AnalyzeEvents ==
    /\ pc = "idle"
    /\ LET counted == Counted(quota, events, ZeroTime, Now, Workloads)
       IN  \E listed \in Orders(counted) :
              analysis' = [counted |-> counted, leaseLastModified |-> ZeroTime,
                           readOk |-> TRUE,
                           deficits |-> DeficitsInOrder(Workloads, listed),
                           contributing |-> {}]
    /\ pc' = "done"
    /\ UNCHANGED <<events, analyzeFrame>>

\* one more admission failure before the next call
AnalyzeEventArrives ==
    /\ pc = "idle"
    /\ Cardinality(events) < MaxListed
    /\ \E evt \in ListedEvents \ events : events' = events \cup {evt}
    /\ UNCHANGED <<pc, analysis, analyzeFrame>>

\* the call returns
AnalyzeAgain ==
    /\ pc = "done"
    /\ pc' = "idle"
    /\ analysis' = NoAnalysis
    /\ UNCHANGED <<events, analyzeFrame>>

AnalyzeNext ==
    \/ AnalyzeEvents
    \/ AnalyzeEventArrives
    \/ AnalyzeAgain

SpecAnalyze == AnalyzeInit /\ [][AnalyzeNext]_vars

(***************************************************************************)
(* GetLock on its own, for a record whose holder identity is any string of *)
(* up to MaxHolderLen characters of HolderAlphabet, as another writer or a *)
(* corruption of the record can leave it.  prID holds the number GetLock   *)
(* returned and result its error.                                          *)
(***************************************************************************)
MaxHolderLen == 5

HolderAlphabet == {"p", "r", "-", "0", "1", "7", "x"}

HolderStrings == UNION {[1..n -> HolderAlphabet] : n \in 0..MaxHolderLen}

holderFrame == <<clock, namespaces, annotations, enableAutoMerge, quota, events, prs,
                 mergedAt, contributed, raceVars, manifest, recommendations, needsResize, status, analysis>>

HolderInit ==
    /\ clock = 0
    /\ \/ leases = (LeaseKey :> NoLease)
       \/ \E holder \in HolderStrings :
             leases = (LeaseKey :> Lease(holder, ZeroTime, EngineLabels(NS, QuotaName)))
    /\ namespaces = {NS}
    /\ annotations = NoAnnotations
    /\ enableAutoMerge = FALSE
    /\ quota = Quota(1000, 1000, 500)
    /\ events = {}
    /\ prs = [id \in 1..MaxPR |-> "none"]
    /\ mergedAt = [id \in 1..MaxPR |-> ZeroTime]
    /\ contributed = {}
    /\ gcLeaseList = {}
    /\ acquireLease = NoLease
    /\ manifest = NoManifests
    /\ pc = "idle"
    /\ recommendations = <<>>
    /\ needsResize = FALSE
    /\ prID = 0
    /\ status = NoStatus
    /\ analysis = NoAnalysis
    /\ trace = {}
    /\ result = NoResult

\* GetLock(ctx, targetNS, quotaName), the Get of the record succeeding
HolderGetLock ==
    /\ pc = "idle"
    /\ LET lock == GetLock(leases, NS, QuotaName, "")
       IN  /\ prID' = lock.id
           /\ result' = Result(lock.err, FALSE, 0)
    /\ trace' = {"GetLock"}
    /\ pc' = "done"
    /\ UNCHANGED <<leases, holderFrame>>

\* the caller has taken the answer
HolderReturn ==
    /\ pc = "done"
    /\ pc' = "idle"
    /\ prID' = 0
    /\ result' = NoResult
    /\ trace' = {}
    /\ UNCHANGED <<leases, holderFrame>>

HolderNext ==
    \/ HolderGetLock
    \/ HolderReturn

SpecHolder == HolderInit /\ [][HolderNext]_vars

(***************************************************************************)
(* The garbage collector and AcquireLock call by call.  cleanup is a List, *)
(* then for every listed record a Get of its namespace and, when that Get  *)
(* says NotFound, a Delete of the record by name; AcquireLock is a Get of  *)
(* the record, then a Create or an Update.  The tick, the namespace's      *)
(* owner and the collector run between these calls.                        *)
(***************************************************************************)
NotFound == "not found"
AlreadyExists == "already exists"

\* an item of the collector's leaseList: nsNotFound says its namespace was
\* looked up and is gone
Item(name, targetNS, nsNotFound) ==
    [name |-> name, targetNs |-> targetNS, nsNotFound |-> nsNotFound]

RaceInit ==
    /\ clock = 0
    /\ leases = (LeaseKey :> NoLease)
    /\ namespaces = {NS}
    /\ annotations = Annotations("true", "", <<>>, <<>>, {1})
    /\ enableAutoMerge = TRUE
    /\ quota = Quota(1000, 1000, 900)
    /\ events = {}
    /\ prs = [id \in 1..MaxPR |-> "none"]
    /\ mergedAt = [id \in 1..MaxPR |-> ZeroTime]
    /\ contributed = {}
    /\ gcLeaseList = {}
    /\ acquireLease = NoLease
    /\ manifest = NoManifests
    /\ pc = "idle"
    /\ recommendations = <<>>
    /\ needsResize = FALSE
    /\ prID = 0
    /\ status = NoStatus
    /\ analysis = NoAnalysis
    /\ trace = {}
    /\ result = NoResult

\* cleanup: the List of the managed records
GCList ==
    /\ gcLeaseList = {}
    /\ Listed(leases) # {}
    /\ gcLeaseList' = {Item(n, leases[n].labels.targetNs, FALSE) : n \in Listed(leases)}
    /\ UNCHANGED <<clock, leases, envVars, prs, mergedAt, contributed, manifest, acquireLease,
                   tickVars>>

\* cleanup: the Get of the namespace of a listed record; a record without
\* target namespace, or whose namespace exists, is left alone
GCGetNamespace ==
    /\ \E item \in gcLeaseList :
          /\ ~item.nsNotFound
          /\ gcLeaseList' =
                IF item.targetNs # "" /\ item.targetNs \notin namespaces
                THEN (gcLeaseList \ {item}) \cup {Item(item.name, item.targetNs, TRUE)}
                ELSE gcLeaseList \ {item}
    /\ UNCHANGED <<clock, leases, envVars, prs, mergedAt, contributed, manifest, acquireLease,
                   tickVars>>

\* cleanup: the Delete of a record whose namespace is gone; the record is
\* named, whatever it holds by now, and an error is only logged
GCDelete ==
    /\ \E item \in gcLeaseList :
          /\ item.nsNotFound
          /\ gcLeaseList' = gcLeaseList \ {item}
          /\ \E fail \in BOOLEAN :
                leases' = IF fail THEN leases
                          ELSE [leases EXCEPT ![item.name] = NoLease]
    /\ UNCHANGED <<clock, envVars, prs, mergedAt, contributed, manifest, acquireLease, tickVars>>

\* AcquireLock: the Get of the record
RaceAcquireGet ==
    /\ pc = "AcquireLock"
    /\ \E fail \in {"", "Get"} :
          \/ /\ fail = "Get"
             /\ Return(Result(TransientError, FALSE, 0),
                       trace \cup {"AcquireLock", "AcquireLock:err"})
             /\ UNCHANGED acquireLease
          \/ /\ fail = ""
             /\ Held
             /\ Return(Result(AlreadyLocked, FALSE, 0),
                       trace \cup {"AcquireLock", "AcquireLock:err"})
             /\ UNCHANGED acquireLease
          \/ /\ fail = ""
             /\ ~Held
             /\ acquireLease' = TheLease
             /\ Goto("AcquireLock.write", trace)
             /\ UNCHANGED localVars
    /\ UNCHANGED <<clock, leases, envVars, prs, mergedAt, contributed, manifest, gcLeaseList>>

\* AcquireLock: the Create of a record that the Get did not find, or the
\* Update of the record the Get returned
RaceAcquireWrite ==
    /\ pc = "AcquireLock.write"
    /\ acquireLease' = NoLease
    /\ \E fail \in {"", "Create", "Update"} :
          LET out ==
                IF acquireLease = NoLease
                THEN IF fail = "Create" THEN Outcome(leases, TransientError)
                     ELSE IF TheLease # NoLease THEN Outcome(leases, AlreadyExists)
                     ELSE Outcome([leases EXCEPT ![LeaseKey] =
                                      Lease(FormatIdentity(prID), ZeroTime,
                                            EngineLabels(NS, QuotaName))], "")
                ELSE IF fail = "Update" THEN Outcome(leases, TransientError)
                     ELSE IF TheLease = NoLease THEN Outcome(leases, NotFound)
                     ELSE Outcome([leases EXCEPT ![LeaseKey] =
                                      [acquireLease EXCEPT
                                          !.holder = FormatIdentity(prID)]], "")
          IN  /\ leases' = out.store
              /\ \/ /\ out.err # ""
                    /\ Return(Result(out.err, FALSE, 0),
                              trace \cup {"AcquireLock", "AcquireLock:err"})
                 \/ /\ out.err = ""
                    /\ Return(Result("", FALSE, 5 * Minute), trace \cup {"AcquireLock"})
    /\ UNCHANGED <<clock, envVars, prs, mergedAt, contributed, manifest, gcLeaseList>>

RaceNext ==
    \/ TickStart
    \/ TickGetLock
    \/ TickGetPRStatus
    \/ TickSetLastModified
    \/ TickReleaseLock
    \/ TickMergePR
    \/ TickUpdatePR
    \/ TickGetLastModified
    \/ TickCreatePR
    \/ RaceAcquireGet
    \/ RaceAcquireWrite
    \/ TickEnd
    \/ Advance
    \/ \E id \in DOMAIN prs : ProviderMerge(id)
    \/ DeleteNamespace
    \/ CreateNamespace
    \/ GCList
    \/ GCGetNamespace
    \/ GCDelete

SpecRace == RaceInit /\ [][RaceNext]_vars

(***************************************************************************)
(* The YAML edit of the provider.  A manifest is read as its mappings:     *)
(* spec.hard, and one other mapping of the file (metadata.labels).  A      *)
(* quantity is written as a number of thousandths; Quantity.String() and   *)
(* the parse of its text give the same quantity back.                      *)
(***************************************************************************)
Manifest(labels, hard) == [absent |-> FALSE, labels |-> labels, hard |-> hard]

matchesResourceKey(key, res) ==
    \/ key = res
    \/ res = "requests.cpu" /\ key = "cpu"
    \/ res = "requests.memory" /\ key = "memory"

\* updateYamlNode on one mapping: the value of every key that matches a
\* resource of limits is overwritten.  The resources are visited in the order
\* of a Go map iteration, so of several matching resources any can be the
\* one whose quantity stays.
updateYamlNode(mapping, limits) ==
    LET values   == {mapping[k] : k \in DOMAIN mapping} \cup {limits[r] : r \in DOMAIN limits}
        hits(k)  == {res \in DOMAIN limits : matchesResourceKey(k, res)}
    IN  {m \in [DOMAIN mapping -> values] :
            \A k \in DOMAIN mapping :
               IF hits(k) = {} THEN m[k] = mapping[k]
               ELSE \E res \in hits(k) : m[k] = limits[res]}

\* applyChangesToYaml(content, limits): the documents it can return for a
\* content that parses; every mapping of the file is walked
applyChangesToYaml(content, limits) ==
    {Manifest(labels, hard) :
        labels \in updateYamlNode(content.labels, limits),
        hard \in updateYamlNode(content.hard, limits)}

MaxYamlKeys == 2
YamlKeys == {"cpu", "requests.cpu", "memory", "requests.memory", "pods"}

\* the mappings with at most MaxYamlKeys of the keys and values from a set
YamlMappings(values) ==
    UNION {[ks -> values] : ks \in {ks \in SUBSET YamlKeys : Cardinality(ks) <= MaxYamlKeys}}

YamlManifests ==
    {Manifest(labels, hard) : labels \in {<<>>, ("cpu" :> 1)}, hard \in YamlMappings({1})}

YamlLimits == YamlMappings({5, 6}) \ {<<>>}

yamlFrame == <<clock, leases, namespaces, annotations, enableAutoMerge, quota, events, prs,
               mergedAt, contributed, raceVars, needsResize, prID, status, analysis,
               trace, result>>

YamlInit ==
    /\ clock = 0
    /\ leases = (LeaseKey :> NoLease)
    /\ namespaces = {NS}
    /\ annotations = NoAnnotations
    /\ enableAutoMerge = FALSE
    /\ quota = Quota(1000, 1000, 500)
    /\ events = {}
    /\ prs = [id \in 1..MaxPR |-> "none"]
    /\ mergedAt = [id \in 1..MaxPR |-> ZeroTime]
    /\ contributed = {}
    /\ gcLeaseList = {}
    /\ acquireLease = NoLease
    /\ \E content \in YamlManifests :
          manifest = [b \in Branches |-> IF b = "main" THEN content ELSE NoFile]
    /\ pc = "idle"
    /\ recommendations \in YamlLimits
    /\ needsResize = FALSE
    /\ prID = 0
    /\ status = NoStatus
    /\ analysis = NoAnalysis
    /\ trace = {}
    /\ result = NoResult

\* CreatePR, 4. Apply changes to content: the file of the base branch is
\* edited and written to the branch of the pull request
YamlApply ==
    /\ pc = "idle"
    /\ \E newContent \in applyChangesToYaml(manifest["main"], recommendations) :
          manifest' = [manifest EXCEPT !["resize"] = newContent]
    /\ pc' = "done"
    /\ UNCHANGED <<recommendations, yamlFrame>>

\* the branch is dropped; the same edit can be made again
YamlReturn ==
    /\ pc = "done"
    /\ manifest' = [manifest EXCEPT !["resize"] = NoFile]
    /\ pc' = "idle"
    /\ UNCHANGED <<recommendations, yamlFrame>>

YamlNext ==
    \/ YamlApply
    \/ YamlReturn

SpecYaml == YamlInit /\ [][YamlNext]_vars

(***************************************************************************)
(* convertToReadableFormat on its own: the hard limit of one resource is   *)
(* taken as the milli-value and the result is kept as the recommendation.  *)
(***************************************************************************)
RoundResources ==
    {"cpu", "pods", "memory", "requests.memory", "limits.memory", "requests.storage",
     "requests.ephemeral-storage"}

\* milli-values around zero, one Mi and two Mi
RoundValues ==
    {0 - 1, 0, 1, 500 * 1000, BytesPerMi * 1000 - 1, BytesPerMi * 1000,
     BytesPerMi * 1000 + 1, (BytesPerMi + 1) * 1000, 2 * BytesPerMi * 1000}

RoundQuotas ==
    {[Quota(0, 0, 0) EXCEPT !.hard = (resName :> milliValue)] :
        resName \in RoundResources, milliValue \in RoundValues}

roundFrame == <<clock, leases, namespaces, annotations, enableAutoMerge, events, prs,
                mergedAt, contributed, raceVars, manifest, needsResize, prID, status,
                analysis, trace, result>>

RoundInit ==
    /\ clock = 0
    /\ leases = (LeaseKey :> NoLease)
    /\ namespaces = {NS}
    /\ annotations = NoAnnotations
    /\ enableAutoMerge = FALSE
    /\ quota \in RoundQuotas
    /\ events = {}
    /\ prs = [id \in 1..MaxPR |-> "none"]
    /\ mergedAt = [id \in 1..MaxPR |-> ZeroTime]
    /\ contributed = {}
    /\ gcLeaseList = {}
    /\ acquireLease = NoLease
    /\ manifest = NoManifests
    /\ pc = "idle"
    /\ recommendations = <<>>
    /\ needsResize = FALSE
    /\ prID = 0
    /\ status = NoStatus
    /\ analysis = NoAnalysis
    /\ trace = {}
    /\ result = NoResult

\* convertToReadableFormat(resName, milliValue, format)
RoundConvert ==
    /\ pc = "idle"
    /\ recommendations' =
          [resName \in DOMAIN quota.hard |->
              convertToReadableFormat(resName, quota.hard[resName])]
    /\ pc' = "done"
    /\ UNCHANGED <<quota, roundFrame>>

\* the next call
RoundReturn ==
    /\ pc = "done"
    /\ recommendations' = <<>>
    /\ pc' = "idle"
    /\ UNCHANGED <<quota, roundFrame>>

RoundNext ==
    \/ RoundConvert
    \/ RoundReturn

SpecRound == RoundInit /\ [][RoundNext]_vars

\* ---------------------------------------------------------------------------
\* The lease records of several (namespace, quota) pairs in the one store of
\* the controller namespace

\* namespaces are DNS labels and quota names DNS subdomains: both may hold "-"
Pairs == {<<"a-b", "c">>, <<"a", "b-c">>, <<"a", "c">>}

PairLeaseNames == {getLeaseName(p[1], p[2]) : p \in Pairs}

\* what a tick of the pair reads of its lock and its last-modified
PairView(store, p) ==
    <<GetLock(store, p[1], p[2], ""), GetLastModified(store, p[1], p[2], "")>>

PairsInit ==
    /\ clock = 0
    /\ leases = [name \in PairLeaseNames |-> NoLease]
    /\ namespaces = {p[1] : p \in Pairs}
    /\ annotations = NoAnnotations
    /\ enableAutoMerge = FALSE
    /\ quota = Quota(1000, 1000, 500)
    /\ events = {}
    /\ prs = [id \in 1..MaxPR |-> "none"]
    /\ mergedAt = [id \in 1..MaxPR |-> ZeroTime]
    /\ contributed = {}
    /\ gcLeaseList = {}
    /\ acquireLease = NoLease
    /\ manifest = NoManifests
    /\ pc = "idle"
    /\ recommendations = <<>>
    /\ needsResize = FALSE
    /\ prID = 0
    /\ status = NoStatus
    /\ analysis = NoAnalysis
    /\ trace = {}
    /\ result = NoResult

PairsAdvance ==
    /\ clock < MaxClock
    /\ clock' = clock + 1
    /\ Called("time.Now", 0, "")
    /\ UNCHANGED <<leases, analysis, lockerFrame>>

PairsGetLock(p) ==
    /\ LET lock == GetLock(leases, p[1], p[2], "")
       IN  Called("GetLock", lock.id, lock.err)
    /\ UNCHANGED <<clock, leases, analysis, lockerFrame>>

PairsAcquireLock(p) ==
    /\ \E id \in 1..MaxPR :
          LET out == AcquireLock(leases, p[1], p[2], id, "")
          IN  /\ leases' = out.store
              /\ Called("AcquireLock", id, out.err)
    /\ UNCHANGED <<clock, analysis, lockerFrame>>

PairsReleaseLock(p) ==
    /\ LET out == ReleaseLock(leases, p[1], p[2], "")
       IN  /\ leases' = out.store
           /\ Called("ReleaseLock", 0, out.err)
    /\ UNCHANGED <<clock, analysis, lockerFrame>>

PairsReleaseLockWithTimestamp(p) ==
    /\ LET out == ReleaseLockWithTimestamp(leases, p[1], p[2], TRUE, Now, "")
       IN  /\ leases' = out.store
           /\ Called("ReleaseLockWithTimestamp", 0, out.err)
    /\ UNCHANGED <<clock, analysis, lockerFrame>>

PairsSetLastModified(p) ==
    /\ LET out == SetLastModified(leases, p[1], p[2], Now, "")
       IN  /\ leases' = out.store
           /\ Called("SetLastModified", 0, out.err)
    /\ UNCHANGED <<clock, analysis, lockerFrame>>

\* a lease operation made by a tick of the pair p
PairsOperation(p) ==
    \/ PairsGetLock(p)
    \/ PairsAcquireLock(p)
    \/ PairsReleaseLock(p)
    \/ PairsReleaseLockWithTimestamp(p)
    \/ PairsSetLastModified(p)

PairsNext ==
    \/ PairsAdvance
    \/ \E p \in Pairs : PairsOperation(p)

SpecPairs == PairsInit /\ [][PairsNext]_vars

(***************************************************************************)
(* Properties.                                                             *)
(***************************************************************************)
\* the pull requests of (NS, QuotaName) that are open
OpenPRs == {id \in DOMAIN prs : prs[id] = "open"}

\* the last-modified time that can be read from the record: zero when the
\* record or the annotation is absent
Readable == IF TheLease = NoLease THEN ZeroTime ELSE TheLease.lastModified

\* C1: at every moment at most one pull request created by the controller for
\* (NS, QuotaName) is open, whatever calls fail and whatever the garbage
\* collector does.
C1_AtMostOneOpenPR == Cardinality(OpenPRs) <= 1

\* C2: no step clears the holder of a merged pull request and leaves a
\* last-modified time from before the merge: the time is set in the very
\* update that clears the holder.
C2_ReleaseOfMergedSetsLastModified ==
    [][\A id \in DOMAIN prs :
          (/\ Held
           /\ TheLease.holder = <<"p", "r", "-">> \o Decimal(id)
           /\ prs[id] = "merged"
           /\ TheLease' # NoLease
           /\ TheLease'.holder = NoHolder)
          => TheLease'.lastModified >= mergedAt[id]]_vars

C4_LastModifiedNeverDecreases == [][Readable' >= Readable]_vars

\* C4, as the code has it: the readable last-modified time never decreases
\* while the record exists; it falls back to zero only when the garbage
\* collector deletes the record of a namespace that is gone.
C4_LastModifiedDecreasesOnlyByDeletion ==
    [][\/ Readable' >= Readable
       \/ /\ TheLease # NoLease
          /\ TheLease' = NoLease
          /\ TheLease.labels.targetNs \notin namespaces]_vars

\* C4: a second merge has moved the last-modified time on
C4_Witness ==
    /\ \A id \in DOMAIN prs : prs[id] = "merged"
    /\ TheLease # NoLease
    /\ TheLease.lastModified > FormatRFC3339(Instant(0))
    /\ "SetLastModified" \in trace /\ "SetLastModified:err" \notin trace

\* C5: a release of an existing record leaves the record in place with its
\* labels, clears the holder, and changes the last-modified time only when
\* it is given a timestamp; a release that fails changes nothing; and no
\* operation of the lease store removes a record.
C5_ReleaseClearsOnlyHolder ==
    [][/\ TheLease # NoLease => TheLease' # NoLease
       /\ (/\ TheLease # NoLease
           /\ trace' \in {{"ReleaseLock"}, {"ReleaseLockWithTimestamp"}})
          => /\ TheLease'.labels = TheLease.labels
             /\ result'.err # "" => leases' = leases
             /\ result'.err = "" => TheLease'.holder = NoHolder
             /\ trace' = {"ReleaseLock"} =>
                   TheLease'.lastModified = TheLease.lastModified
             /\ (trace' = {"ReleaseLockWithTimestamp"} /\ result'.err = "") =>
                   TheLease'.lastModified = FormatRFC3339(Now)]_vars

\* C5: a lock has been released; the record is there with its labels and
\* the last-modified time it had
C5_Witness ==
    /\ trace = {"ReleaseLock"}
    /\ result.err = ""
    /\ TheLease = Lease(NoHolder, FormatRFC3339(Instant(0)), EngineLabels(NS, QuotaName))
    /\ clock = MaxClock

\* C6: a cleanup run deletes a record only if the record carries the
\* managed-by label and its target-namespace label names a namespace that
\* does not exist; it deletes every such record for which its calls
\* succeed; every other record is left as it was.
C6_DeletesExactlyOrphans ==
    [][("cleanup" \in trace')
       => \A n \in DOMAIN leases :
             LET managed == leases[n] # NoLease /\ leases[n].labels.managedBy = ManagedBy
                 orphan  == /\ managed
                            /\ leases[n].labels.targetNs # ""
                            /\ leases[n].labels.targetNs \notin namespaces
             IN  /\ (leases[n] # NoLease /\ leases'[n] = NoLease) => orphan
                 /\ (orphan /\ "List:err" \notin trace' /\ n \notin trace')
                       => leases'[n] = NoLease
                 /\ leases'[n] # NoLease => leases'[n] = leases[n]]_vars

\* C6: a cleanup run has deleted the record of the namespace that is gone
\* and has left the record of the namespace that exists and the lease of
\* another owner whose label names the namespace that is gone
C6_Witness ==
    /\ trace = {"cleanup", "deleted " \o OtherLeaseKey}
    /\ namespaces = {NS}
    /\ leases[OtherLeaseKey] = NoLease
    /\ leases[LeaseKey] # NoLease
    /\ leases[ForeignLeaseKey] # NoLease

\* C7: a tick writes no lease before CreatePR has succeeded: AcquireLock
\* is called only after a CreatePR that returned a number, and a tick whose
\* CreatePR fails returns with the store untouched and the holder empty.
C7_NoLockWithoutPR ==
    [][/\ (pc' # pc /\ pc \in {"idle", "GetLock", "GetLastModified", "CreatePR"})
          => leases' = leases
       /\ (pc # "AcquireLock" /\ pc' = "AcquireLock")
          => /\ pc = "CreatePR"
             /\ prID' \in DOMAIN prs
             /\ prs[prID'] = "none" /\ prs'[prID'] = "open"
       /\ (pc = "CreatePR" /\ pc' = "done")
          => /\ "CreatePR:err" \in trace'
             /\ trace' \cap {"AcquireLock", "SetLastModified", "ReleaseLock"} = {}
             /\ result'.err # "" \/ result'.requeueAfter = 1 * Minute
             /\ prs' = prs
             /\ ~Held /\ ~Held']_vars

\* C7: a tick has returned because CreatePR failed
C7_Witness ==
    /\ pc = "done"
    /\ "CreatePR:err" \in trace
    /\ result.err = TransientError

\* C8: a holder that is set is "pr-<n>" for a positive number n that
\* CreatePR has returned for (NS, QuotaName).
C8_HolderIsCreatedPR ==
    Held => \E n \in DOMAIN prs :
               /\ n > 0
               /\ TheLease.holder = <<"p", "r", "-">> \o Decimal(n)
               /\ prs[n] # "none"

\* C8: the record is held by the second pull request
C8_Witness == Held /\ TheLease.holder = <<"p", "r", "-", "2">> /\ prs[2] = "open"

\* C9: AcquireLock on a record that is held fails, with "already locked"
\* once it has read the record, and leaves the record as it was; and no
\* operation changes a holder into another holder.
C9_HeldLockIsNotTaken ==
    [][/\ (Held /\ trace' = {"AcquireLock"})
          => /\ result'.err \in {AlreadyLocked, TransientError}
             /\ leases' = leases
       /\ (Held /\ Held') => TheLease'.holder = TheLease.holder]_vars

\* C9: AcquireLock for one pull request has found the record held by another
C9_Witness ==
    /\ trace = {"AcquireLock"}
    /\ result.err = AlreadyLocked
    /\ Held
    /\ \E id \in 1..MaxPR : id # prID /\ TheLease.holder = <<"p", "r", "-">> \o Decimal(id)

\* C10: when the tick reaches its cooldown check (lock free, resize needed,
\* recommendation not a no-op) and the record has a last-modified time less
\* than the cooldown ago, it returns without a pull request and without a
\* lease write, asking to be run again after the rest of the cooldown plus
\* one second; it goes on to CreatePR only when the last-modified time is
\* zero or the cooldown has elapsed.
C10_CooldownHoldsBackProposal ==
    [][LET cooldown == parseConfig(annotations).Cooldown
           elapsed  == Now - Readable
           cooling  == Readable # ZeroTime /\ elapsed < cooldown
       IN  /\ (pc = "GetLastModified" /\ pc' # pc /\ cooling)
              => /\ pc' = "done"
                 /\ prs' = prs
                 /\ leases' = leases
                 /\ result'.err = ""
                       => /\ result'.requeueAfter = (cooldown - elapsed) + 1 * Second
                          /\ ~result'.requeue
                          /\ "cooldown" \in trace'
           /\ (pc # "CreatePR" /\ pc' = "CreatePR")
                 => (pc = "GetLastModified" /\ ~cooling)
           /\ prs' # prs /\ (\E id \in DOMAIN prs : prs[id] = "none" /\ prs'[id] = "open")
                 => pc = "CreatePR"]_vars

\* C10: a tick has returned within the cooldown, half a second after the
\* second of the last merge
C10_Witness ==
    /\ pc = "done"
    /\ "cooldown" \in trace
    /\ result = Result("", FALSE, 60 * Second + 500 * Millisecond)

\* C11: whenever a new pull request is created for (NS, QuotaName), every
\* merge of an earlier pull request of the pair lies at least the configured
\* cooldown back, whatever calls have failed.
C11_CooldownBetweenMergeAndProposal ==
    [][\A id \in DOMAIN prs :
          (prs[id] = "none" /\ prs'[id] = "open")
          => \A merged \in DOMAIN prs :
                prs[merged] = "merged"
                => Now - mergedAt[merged] >= parseConfig(annotations).Cooldown]_vars

\* the auto-merge gate as the spec words it, for the status st of the held
\* pull request
MergeGate(st) ==
    /\ st.IsOpen
    /\ enableAutoMerge
    /\ annotations.autoMerge # "false"
    /\ st.MergeableState \notin {"unknown", "Unknown", "UNKNOWN"}
    /\ st.Mergeable
    /\ \/ st.MergeableState = "clean"
       \/ /\ st.MergeableState = "blocked"
          /\ (st.ChecksState = "success" \/ st.ChecksTotalCount = 0)

HeldForClosedPR ==
    /\ Held
    /\ \E id \in DOMAIN prs :
          /\ TheLease.holder = <<"p", "r", "-">> \o Decimal(id)
          /\ prs[id] \in {"merged", "closed"}

\* with the namespace present and not opted out, a lease held for a merged
\* or closed pull request is released by a later tick, unless the namespace
\* is deleted in between
ClosedPRLeadsToRelease ==
    (HeldForClosedPR /\ NS \in namespaces /\ annotations.enabled # "false")
        ~> (~Held \/ NS \notin namespaces)

\* the step of the tick that clears the holder of a merged pull request
\* leaves a last-modified time that the tick has set: not before the merge
\* and not after the release
ReleaseOfMergedStampsTickTime ==
    [][\A id \in DOMAIN prs :
          (/\ pc = "ReleaseLock"
           /\ Held
           /\ TheLease.holder = <<"p", "r", "-">> \o Decimal(id)
           /\ prs[id] = "merged"
           /\ TheLease' # NoLease
           /\ TheLease'.holder = NoHolder)
          => /\ TheLease'.lastModified # ZeroTime
             /\ TheLease'.lastModified >= mergedAt[id]
             /\ TheLease'.lastModified <= FormatRFC3339(Now)]_vars

\* C13: under fair ticking a lease held for a merged or closed pull request
\* is released by a later tick, and when the pull request was merged the
\* release leaves the last-modified time that tick has set.
C13_ClosedPRIsReleased ==
    /\ ClosedPRLeadsToRelease
    /\ ReleaseOfMergedStampsTickTime

\* C14: every entry of the recommendation map calculateRecommendations has
\* produced is strictly greater than the hard value of the quota for that
\* resource.
C14_RecommendationAboveHard ==
    pc = "done"
    => \A res \in DOMAIN recommendations : recommendations[res] > quota.hard[res]

\* the name a quota counts the requests of a resource under
Canonical(res) ==
    CASE res = "cpu" -> "requests.cpu"
      [] res = "memory" -> "requests.memory"
      [] res = "storage" -> "requests.storage"
      [] OTHER -> res

\* desired - observed replicas of the workload w of kind kind
MissingReplicas(kind, w) ==
    IF kind = "DaemonSet" THEN w.desired - w.current
    ELSE IF w.replicas = {} THEN 0
    ELSE (CHOOSE d \in w.replicas : TRUE) - w.current

\* C15: for the one event of an existing StatefulSet, ReplicaSet or
\* DaemonSet with desired > observed replicas, the deficits hold, for every
\* resource of the pod template, the effective request times the missing
\* replicas under the canonical quota name, and for a StatefulSet the storage
\* of the volume claim templates times the missing replicas under
\* requests.storage.
C15_DeficitIsTemplateTimesGap ==
    (pc = "done" /\ Cardinality(analysis.counted) = 1)
    => \A evt \in analysis.counted :
          LET ref     == evt.involved
              w       == Workloads[ref]
              missing == MissingReplicas(ref.kind, w)
              key     == getWorkloadKey(ref.name)
              pod     == getPodRequests(w)
              pvc     == getPVCRequests(w.pvcTemplates)
              d       == analysis.deficits
          IN  (ref.kind \in {"StatefulSet", "ReplicaSet", "DaemonSet"} /\ missing > 0)
              => /\ \A r \in DOMAIN pod :
                       /\ Canonical(r) \in DOMAIN d
                       /\ At(d[Canonical(r)], key) = pod[r] * missing
                 /\ ref.kind = "StatefulSet"
                    => \A r \in DOMAIN pvc :
                          /\ Canonical(r) \in DOMAIN d
                          /\ At(d[Canonical(r)], key) = pvc[r] * missing

\* what the deficit calculator returns for the event evt and the resource
\* res: zero when it does not name res
Contribution(evt, res) == At(WorkloadDeficit(Workloads, evt).deficits, res)

\* the total deficit of res after the loop
TotalOf(res) ==
    IF res \in DOMAIN analysis.deficits THEN TotalDeficit(analysis.deficits, res) ELSE 0

\* C16: when the counted events all have the same workload key, the total
\* deficit of every resource is the largest single contribution to it, in
\* whatever order the events were listed.
C16_RetriesOfOneWorkloadTakeMax ==
    (/\ pc = "done"
     /\ analysis.counted # {}
     /\ \A e1, e2 \in analysis.counted :
           getWorkloadKey(e1.involved.name) = getWorkloadKey(e2.involved.name))
    => \A res \in {"cpu", "memory", "storage"} :
          TotalOf(res) = MaxOf({Contribution(evt, res) : evt \in analysis.counted})

\* C16: three events of one workload, with two different contributions to
\* cpu, have been analysed and the total is the largest of them
C16_Witness ==
    /\ pc = "done"
    /\ Cardinality(analysis.counted) = 3
    /\ \A evt \in analysis.counted :
          getWorkloadKey(evt.involved.name) = <<"app", "6b4">>
    /\ {Contribution(evt, "cpu") : evt \in analysis.counted} = {200, 500}
    /\ TotalOf("cpu") = 500

\* the largest contribution to res among the events of the object ref
LargestOf(ref, res) ==
    MaxOf({Contribution(evt, res) : evt \in {e \in analysis.counted : e.involved = ref}})

\* C17: when the counted events are those of K distinct StatefulSets,
\* ReplicaSets and DaemonSets, the total deficit of every resource is the sum
\* over the K workloads of the largest contribution of each.
C17_DistinctWorkloadsAddUp ==
    (/\ pc = "done"
     /\ \A evt \in analysis.counted :
           evt.involved.kind \in {"StatefulSet", "ReplicaSet", "DaemonSet"})
    => \A res \in {"cpu", "memory", "storage"} :
          TotalOf(res) =
              Sum([ref \in {evt.involved : evt \in analysis.counted} |-> LargestOf(ref, res)],
                  {evt.involved : evt \in analysis.counted})

\* C18: no step of a reconcile tick and no run of the garbage collector
\* changes spec.hard, status.hard or status.used of the quota.
C18_QuotaNeverPatched ==
    [][(Tick \/ GCRun) => quota' = quota]_vars

\* C18: a tick has created a pull request for a higher limit and taken the
\* lock, the garbage collector has left the record, and spec.hard is what it
\* was
C18_Witness ==
    /\ pc = "done"
    /\ "AcquireLock" \in trace /\ "AcquireLock:err" \notin trace
    /\ Held
    /\ quota = Quota(1000, 1000, 900)

\* the tick has fetched the quota and the namespace
Fetched == trace' \cap {"GetQuota:err", "GetNamespace:err"} = {}

\* C19: in a namespace annotated resizer.io/enabled = "false" the tick that
\* has fetched the namespace returns at once, with no call to the provider,
\* no write to the lease record, no event recorded and no requeue; with any
\* other value or without the annotation the tick goes on to the lock.
C19_OptOutIsNoop ==
    [][(pc = "idle" /\ pc' # "idle" /\ NS \in namespaces /\ Fetched)
       => IF annotations.enabled = "false"
          THEN /\ pc' = "done"
               /\ trace' = {}
               /\ result' = NoResult
               /\ leases' = leases
               /\ prs' = prs
          ELSE pc' = "GetLock"]_vars

\* C19: the tick of an opted-out namespace has returned while the lease is
\* held for an open pull request and the usage is over the threshold
C19_Witness ==
    /\ annotations.enabled = "false"
    /\ pc = "done"
    /\ trace = {}
    /\ result = NoResult
    /\ Held
    /\ \E id \in DOMAIN prs : prs[id] = "open"
    /\ quota = Quota(1000, 1000, 900)

\* C20: the step in which CreatePR or UpdatePR fails with ErrFileNotFound
\* ends the tick with no error and a requeue after one minute, and leaves
\* the lease record as it is: not held after CreatePR, with the holder it
\* had after UpdatePR.
C20_FileNotFoundIsSoft ==
    [][("ErrFileNotFound" \in trace' /\ "ErrFileNotFound" \notin trace)
       => /\ pc \in {"CreatePR", "UpdatePR"}
          /\ pc' = "done"
          /\ result' = Result("", FALSE, 1 * Minute)
          /\ leases' = leases
          /\ prs' = prs
          /\ pc = "CreatePR" => ~Held'
          /\ pc = "UpdatePR" => TheLease' = TheLease]_vars

\* C20: UpdatePR has failed with ErrFileNotFound in a tick that found the
\* lock held for an open pull request
C20_Witness ==
    /\ pc = "done"
    /\ {"UpdatePR", "ErrFileNotFound"} \subseteq trace
    /\ result = Result("", FALSE, 1 * Minute)
    /\ Held
    /\ \E id \in DOMAIN prs :
          prs[id] = "open" /\ TheLease.holder = <<"p", "r", "-">> \o Decimal(id)

\* the failures after which a tick may return no error: a failed auto-merge
\* attempt, and CreatePR or UpdatePR failing with ErrFileNotFound
Tolerated(tr) ==
    {"MergePR:err"}
    \cup (IF "ErrFileNotFound" \in tr THEN {"CreatePR:err", "UpdatePR:err"} ELSE {})

\* C21: a tick in which a call to the cluster or to the provider has failed,
\* other than with ErrFileNotFound or in an auto-merge attempt, returns an
\* error.
C21_FailuresAreReturned ==
    (pc = "done" /\ (trace \cap Failures) \ Tolerated(trace) # {})
    => result.err # ""

\* C22: an event that has gone into the recommendations of a pull request
\* that was created does not go into those of a pull request created later.
C22_EventContributesOnce ==
    [][(pc = "CreatePR" /\ pc' = "AcquireLock")
       => \A evt \in analysis.contributing : evt.id \notin contributed]_vars

\* the string ds is a non-empty run of decimal digits
IsNumber(ds) == ds # <<>> /\ \A i \in DOMAIN ds : IsDigit(ds[i])

\* the string s is a decimal integer: digits, with a sign before them or not
IsInteger(s) == IsNumber(s) \/ (s # <<>> /\ Head(s) \in {"-", "+"} /\ IsNumber(Tail(s)))

\* the value of the decimal integer s
IntegerValue(s) ==
    IF Head(s) = "-" THEN 0 - DecimalValue(Tail(s))
    ELSE IF Head(s) = "+" THEN DecimalValue(Tail(s))
    ELSE DecimalValue(s)

\* the holder identity is "pr-<n>" for an integer n, and nothing else
IsPRIdentity(holder) ==
    /\ Len(holder) > 3
    /\ SubSeq(holder, 1, 3) = <<"p", "r", "-">>
    /\ IsInteger(SubSeq(holder, 4, Len(holder)))

\* C23: GetLock returns no holder and no error for an absent record and for
\* an empty holder, n and no error for the holder pr-<n>, and an error for
\* every other holder string.
C23_GetLockParsesHolder ==
    pc = "done"
    => IF TheLease = NoLease \/ TheLease.holder = NoHolder
       THEN prID = 0 /\ result.err = ""
       ELSE IF IsPRIdentity(TheLease.holder)
       THEN /\ result.err = ""
            /\ prID = IntegerValue(SubSeq(TheLease.holder, 4, Len(TheLease.holder)))
       ELSE result.err # ""


\* C24: however the calls of a cleanup run of the garbage collector fall
\* between the calls of a tick, the AcquireLock that follows a successful
\* CreatePR ends the tick without error and with the lease held by the new
\* pull request, unless one of its own calls fails transiently.
C24_CleanupNeverBreaksAcquire ==
    [][(pc \in {"AcquireLock", "AcquireLock.write"} /\ pc' = "done"
        /\ result'.err # TransientError)
       => /\ result'.err = ""
          /\ TheLease' # NoLease
          /\ TheLease'.holder = FormatIdentity(prID)]_vars


\* C25: a tick records the QuotaResizeRecommended events (one Recorder.Event
\* call for every recommended resource) exactly when it creates a pull
\* request: a tick that ends without a created pull request, CreatePR
\* having failed included, has recorded none.
C25_EventExactlyWithProposal ==
    pc = "done"
    => ("Recorder.Event" \in trace
        <=> ("CreatePR" \in trace /\ "CreatePR:err" \notin trace))


\* C26: without admission failures the recommendation is the usage
\* analysis alone.  It proposes a cpu target exactly when hard and used both
\* have cpu, hard is above zero and used / hard * 100 is at least the
\* threshold; the target is hard * (1 + growth) in whole millicores (growth
\* and threshold in percent); nothing is proposed otherwise.
C26_UsageAnalysis ==
    (pc = "done" /\ events = {})
    => LET config    == parseConfig(annotations)
           threshold == GetThreshold(config, "cpu")
           growth    == GetIncrement(config, "cpu")
           hard      == quota.hard["cpu"]
           proposes  == /\ "cpu" \in DOMAIN quota.used
                        /\ hard > 0
                        /\ quota.used["cpu"] * 100 >= threshold * hard
       IN  IF proposes
           THEN /\ DOMAIN recommendations = {"cpu"}
                /\ recommendations["cpu"] * 100 <= hard * (100 + growth)
                /\ hard * (100 + growth) < (recommendations["cpu"] + 1) * 100
           ELSE recommendations = <<>>

\* hard 1000m, used 850m, threshold 80, growth 0.2 gives 1200m
C26_Witness ==
    /\ pc = "done"
    /\ events = {}
    /\ quota.hard["cpu"] = 1000
    /\ "cpu" \in DOMAIN quota.used
    /\ quota.used["cpu"] = 850
    /\ GetThreshold(parseConfig(annotations), "cpu") = 80
    /\ GetIncrement(parseConfig(annotations), "cpu") = 20
    /\ recommendations = ("cpu" :> 1200)


\* C27: the final recommendation has exactly the resources of the
\* usage-analysis result and of the event-analysis result, each with the
\* largest value proposed for it, and needsResize is true exactly when the
\* final recommendation is not empty.
ProposalsFor(res, metric, eventRecommendations) ==
    {metric[r] : r \in DOMAIN metric \cap {res}}
    \cup {eventRecommendations[r] : r \in DOMAIN eventRecommendations \cap {res}}

C27_FinalIsMaximum ==
    pc = "done"
    => LET config == parseConfig(annotations)
           metric == metricRecommendations(quota, config)
       IN  /\ \E eventRecommendations \in
                  analyzeEvents(quota, config, events, ZeroTime, Now, Objects) :
                 /\ DOMAIN recommendations =
                       DOMAIN metric \cup DOMAIN eventRecommendations
                 /\ \A res \in DOMAIN recommendations :
                       /\ recommendations[res]
                              \in ProposalsFor(res, metric, eventRecommendations)
                       /\ \A v \in ProposalsFor(res, metric, eventRecommendations) :
                             v <= recommendations[res]
           /\ needsResize <=> recommendations # <<>>

\* both analyses propose for cpu and the usage analysis proposes more
C27_Witness ==
    /\ pc = "done"
    /\ needsResize
    /\ LET config == parseConfig(annotations)
           metric == metricRecommendations(quota, config)
       IN  \E eventRecommendations \in
               analyzeEvents(quota, config, events, ZeroTime, Now, Objects) :
              /\ "cpu" \in DOMAIN metric \cap DOMAIN eventRecommendations
              /\ eventRecommendations["cpu"] < metric["cpu"]
              /\ recommendations["cpu"] = metric["cpu"]


\* C28: after the YAML edit of a manifest with a new-limits map, spec.hard
\* of the edited document has the quantity of the map under every key of the
\* map (or under its alias: requests.cpu and cpu, requests.memory and
\* memory), and has the quantity of the manifest under every other key.
YamlAliases(res) ==
    IF res \in {"cpu", "requests.cpu"} THEN {"cpu", "requests.cpu"}
    ELSE IF res \in {"memory", "requests.memory"} THEN {"memory", "requests.memory"}
    ELSE {res}

C28_YamlEditAgreesWithLimits ==
    (pc = "done" /\ manifest["resize"] # NoFile)
    => LET before == manifest["main"].hard
           after  == manifest["resize"].hard
       IN  /\ \A res \in DOMAIN recommendations :
                 \E k \in YamlAliases(res) \cap DOMAIN after :
                    after[k] = recommendations[res]
           /\ \A k \in DOMAIN before :
                 (\A res \in DOMAIN recommendations : k \notin YamlAliases(res))
                 => k \in DOMAIN after /\ after[k] = before[k]


\* C29: for a memory- or storage-like resource the rounding step returns the
\* smallest whole number of Mi (1048576 bytes) that is at least the
\* milli-value divided by 1000, for every other resource the milli-value
\* itself; the result is never below the input.
MemoryOrStorage(resName) == Contains(resName, "memory") \/ Contains(resName, "storage")

C30_UnknownStateWaits ==
    [][(/\ pc = "GetPRStatus"
        /\ status'.IsOpen
        /\ status'.MergeableState = "unknown"
        /\ shouldAutoMerge(enableAutoMerge, annotations))
       => /\ pc' = "done"
          /\ result' = Result("", FALSE, 15 * Second)
          /\ leases' = leases
          /\ prs' = prs
          /\ {"MergePR", "UpdatePR"} \cap trace' = {}]_vars

\* a tick that needed a resize has ended on the unknown state
C30_Witness ==
    /\ pc = "done"
    /\ status.IsOpen
    /\ status.MergeableState = "unknown"
    /\ shouldAutoMerge(enableAutoMerge, annotations)
    /\ calculateRecommendations(quota, parseConfig(annotations), <<>>, FALSE).needsResize
    /\ Held
    /\ "GetPRStatus" \in trace
    /\ result = Result("", FALSE, 15 * Second)


\* C31: a failing MergePR does not end the tick with the merge error and
\* does not touch the lease: the tick goes on to UpdatePR when needsResize
\* is true, and, the update step not failing, ends without error and with a
\* requeue after 5 minutes.
C31_MergeFailureGoesOn ==
    [][/\ (pc = "MergePR" /\ "MergePR:err" \in trace')
          => /\ leases' = leases
             /\ prs' = prs
             /\ IF needsResize
                THEN pc' = "UpdatePR" /\ result' = result
                ELSE pc' = "done" /\ result' = Result("", FALSE, 5 * Minute)
       /\ (pc = "UpdatePR" /\ pc' = "done" /\ "MergePR:err" \in trace)
          => /\ leases' = leases
             /\ "UpdatePR" \in trace'
             /\ "UpdatePR:err" \notin trace' => result' = Result("", FALSE, 5 * Minute)
             /\ result'.err # "" => "UpdatePR:err" \in trace']_vars

\* MergePR failed, UpdatePR was made, the tick asks for 5 minutes and the
\* lease is still held
C31_Witness ==
    /\ pc = "done"
    /\ {"MergePR:err", "UpdatePR"} \subseteq trace
    /\ "UpdatePR:err" \notin trace
    /\ result = Result("", FALSE, 5 * Minute)
    /\ Held


\* C32 as stated: with the lease held and the held pull request reported
\* open, the tick does not go to CreatePR and does not write the lease; it
\* goes on to UpdatePR exactly when needsResize is true and no merge has
\* succeeded, and a tick that ends without a provider call asks for a
\* requeue after 5 minutes.
C32_UpdateExactlyWhenResizeNeeded ==
    [][/\ (pc = "GetPRStatus" /\ status'.IsOpen)
          => /\ leases' = leases
             /\ pc' \in {"done", "MergePR", "UpdatePR"}
             /\ pc' = "UpdatePR" => needsResize
             /\ pc' = "done" => ~needsResize /\ result' = Result("", FALSE, 5 * Minute)
       /\ (pc = "MergePR" /\ pc' # pc)
          => /\ leases' = leases
             /\ pc' \in {"done", "UpdatePR"}
             /\ pc' = "UpdatePR" <=> (needsResize /\ prs' = prs)
       /\ (pc = "UpdatePR" /\ pc' # pc)
          => leases' = leases /\ prs' = prs /\ pc' = "done"]_vars

\* C32, amended: as above, except that a tick with auto-merge in effect that
\* finds the mergeable state unknown ends at once, without UpdatePR even when
\* needsResize is true and with a requeue after 15 seconds; a tick whose
\* MergePR succeeded asks for an immediate requeue.
C32_UpdateUnlessStateUnknown ==
    [][/\ (pc = "GetPRStatus" /\ status'.IsOpen)
          => LET waits == /\ shouldAutoMerge(enableAutoMerge, annotations)
                          /\ status'.MergeableState = "unknown"
             IN  /\ leases' = leases
                 /\ prs' = prs
                 /\ pc' \in {"done", "MergePR", "UpdatePR"}
                 /\ waits => pc' = "done" /\ result' = Result("", FALSE, 15 * Second)
                 /\ pc' = "UpdatePR" => needsResize /\ ~waits
                 /\ pc' = "MergePR" => shouldAutoMerge(enableAutoMerge, annotations) /\ ~waits
                 /\ (pc' = "done" /\ ~waits)
                    => ~needsResize /\ result' = Result("", FALSE, 5 * Minute)
       /\ (pc = "MergePR" /\ pc' # pc)
          => /\ leases' = leases
             /\ pc' \in {"done", "UpdatePR"}
             /\ pc' = "UpdatePR" <=> (needsResize /\ prs' = prs)
             /\ (pc' = "done" /\ prs' # prs) => result' = Result("", TRUE, 0)
             /\ (pc' = "done" /\ prs' = prs) => result' = Result("", FALSE, 5 * Minute)
       /\ (pc = "UpdatePR" /\ pc' # pc)
          => leases' = leases /\ prs' = prs /\ pc' = "done"]_vars

\* a tick for a held, open pull request has called UpdatePR and nothing else
C32_Witness ==
    /\ pc = "done"
    /\ Held
    /\ "GetPRStatus" \in trace
    /\ "UpdatePR" \in trace
    /\ "UpdatePR:err" \notin trace
    /\ "MergePR" \notin trace
    /\ "CreatePR" \notin trace
    /\ result = Result("", FALSE, 5 * Minute)


C34_NoopBeforeCooldown ==
    [][(/\ pc = "GetLock"
        /\ pc' # pc
        /\ ~Held
        /\ needsResize
        /\ "GetLock:err" \notin trace')
       => IF \A res \in DOMAIN recommendations :
                /\ res \in DOMAIN quota.specHard
                /\ quota.specHard[res] = recommendations[res]
          THEN /\ pc' = "done"
               /\ result' = Result("", FALSE, 10 * Minute)
               /\ leases' = leases
               /\ prs' = prs
               /\ {"GetLastModified", "CreatePR", "AcquireLock"} \cap trace' = {}
          ELSE pc' = "GetLastModified"]_vars

\* a tick has ended on a recommendation that spec.hard already has
C34_Witness ==
    /\ pc = "done"
    /\ ~Held
    /\ "GetLock" \in trace
    /\ "GetLastModified" \notin trace
    /\ result = Result("", FALSE, 10 * Minute)
    /\ quota.specHard["cpu"] > quota.hard["cpu"]
    /\ \A id \in DOMAIN prs : prs[id] = "none"


\* C35: the deficits of an analysis are those of the listed events whose
\* involved object exists; an event of a deleted object is not counted and
\* leaves the deficits as they are without it.
C35_DeletedObjectContributesNothing ==
    pc = "done"
    => LET alive == {evt \in events : evt.involved \in DOMAIN Workloads}
       IN  /\ analysis.counted = alive
           /\ \E listed \in Orders(alive) :
                 analysis.deficits = DeficitsInOrder(Workloads, listed)

\* an analysis has run over the event of a deleted object and the event of
\* a live one
C35_Witness ==
    /\ pc = "done"
    /\ \E evt \in events : evt.involved \in DeletedWorkloads
    /\ \E evt \in events : evt.involved \in DOMAIN Workloads
    /\ analysis.counted # {}
    /\ analysis.counted # events


\* C36: the deficits of the one counted event are never empty, and they are
\* exactly the event's resource with the requested quantity when the
\* involved object is a Pod, has no replica count, or misses no replica.
C36_DeficitNeverEmpty ==
    (pc = "done" /\ Cardinality(analysis.counted) = 1)
    => \A evt \in analysis.counted :
          LET ref     == evt.involved
              w       == Workloads[ref]
              key     == getWorkloadKey(ref.name)
              asked   == CHOOSE req \in evt.message.requested : TRUE
              missing == MissingReplicas(ref.kind, w)
          IN  /\ DOMAIN analysis.deficits # {}
              /\ (\/ ref.kind \notin {"StatefulSet", "ReplicaSet", "DaemonSet"}
                  \/ missing <= 0)
                 => analysis.deficits = (asked[1] :> (key :> asked[2]))


\* C37: a lease operation of one (namespace, quota) pair leaves the lock and
\* the last-modified that every other pair reads as they were: distinct
\* pairs use distinct lease records.
C37_PairsUseDistinctRecords ==
    [][\A p \in Pairs :
          PairsOperation(p)
          => \A q \in Pairs \ {p} : PairView(leases', q) = PairView(leases, q)]_vars


\* the numbers a provider's CreatePR returns: the number of a GitHub pull
\* request (from 1), rand.Intn(1000) + 1000 of the log providers
CreatePRNumbers == {1, 2, 9, 10, 101, 999, 1000, 1999}

\* C38: a successful GetLock answers 0 exactly when the record is absent or
\* has no holder. The record left by a successful AcquireLock(id) is read
\* back as id, for the id of the tick and for every number a provider's
\* CreatePR returns, and a tick that finds the record held goes on to the
\* status of that PR, never to a new proposal.
C38_HeldLockIsReadBack ==
    [][/\ (pc = "AcquireLock" /\ pc' = "done" /\ "AcquireLock:err" \notin trace')
          => /\ prID \in 1..MaxPR
             /\ GetLock(leases', NS, QuotaName, "") = [id |-> prID, err |-> ""]
             /\ \A id \in CreatePRNumbers :
                   LET free  == (LeaseKey :> Lease(NoHolder, ZeroTime,
                                                  EngineLabels(NS, QuotaName)))
                       none  == (LeaseKey :> NoLease)
                   IN  /\ GetLock(AcquireLock(free, NS, QuotaName, id, "").store,
                                  NS, QuotaName, "") = [id |-> id, err |-> ""]
                       /\ GetLock(AcquireLock(none, NS, QuotaName, id, "").store,
                                  NS, QuotaName, "") = [id |-> id, err |-> ""]
       /\ (pc = "GetLock" /\ pc' # pc /\ "GetLock:err" \notin trace')
          => LET lock == GetLock(leases, NS, QuotaName, "")
             IN  /\ lock.err = ""
                 /\ lock.id = 0 <=> ~Held
                 /\ Held => /\ pc' = "GetPRStatus"
                            /\ prID' = lock.id
                            /\ TheLease.holder = FormatIdentity(prID')
                 /\ ~Held => pc' \in {"done", "GetLastModified"}]_vars

\* a tick has found the lock that the tick before it acquired and asks for
\* the status of that PR
C38_Witness ==
    /\ pc = "GetPRStatus"
    /\ Held
    /\ "GetLock" \in trace
    /\ prID = 2
    /\ TheLease.holder = FormatIdentity(2)
    /\ prs[2] = "open"


\* C39: the record of the pair, whoever of AcquireLock and SetLastModified
\* created it and whatever was done to it since, carries the managed-by
\* label and the namespace of the pair as target namespace, so the cleanup
\* lists it; a cleanup run whose calls succeed, made while the namespace is
\* gone, deletes it.
C39_EngineRecordIsCollected ==
    [][/\ TheLease' # NoLease
          => /\ TheLease'.labels.managedBy = ManagedBy
             /\ TheLease'.labels.targetNs = NS
             /\ TheLease'.labels.quota = QuotaName
             /\ LeaseKey \in Listed(leases')
       /\ (TheLease # NoLease /\ TheLease' # NoLease)
          => TheLease'.labels = TheLease.labels
       /\ (/\ TheLease # NoLease
           /\ NS \notin namespaces
           /\ pc' = pc
           /\ namespaces' = namespaces
           /\ leases' = cleanup(leases, namespaces, FALSE, {}).store)
          => TheLease' = NoLease]_vars

\* the record that the last tick created by AcquireLock is gone: the
\* namespace was deleted and a cleanup run has taken the record
C39_Witness ==
    /\ pc = "done"
    /\ "AcquireLock" \in trace
    /\ "AcquireLock:err" \notin trace
    /\ NS \notin namespaces
    /\ TheLease = NoLease


\* what a tick of now computes from the quota (no event is listed)
ProposalOfNow ==
    calculateRecommendations(quota, parseConfig(annotations), <<>>, FALSE)

\* the lease is free, the quota needs a resize that spec.hard does not have
\* yet, the namespace exists and is not opted out, the provider has a number
\* left to hand out and the cooldown is over by the last instant of the clock
ProposalDue ==
    /\ ~Held
    /\ NS \in namespaces
    /\ ~optedOut(annotations)
    /\ ProposalOfNow.needsResize
    /\ ~isNoop(quota, ProposalOfNow.recommendations)
    /\ \E id \in DOMAIN prs : prs[id] = "none"
    /\ ~CheckCooldown(leases, NS, QuotaName, parseConfig(annotations).Cooldown,
                      Instant(MaxClock), "").active

\* the lease is held by the number of a PR that the provider has created
HeldByCreatedPR ==
    /\ Held
    /\ \E id \in DOMAIN prs :
          /\ prs[id] # "none"
          /\ TheLease.holder = FormatIdentity(id)

\* C40: with ticks whose calls succeed, a free lease of a quota that needs
\* a resize which is not a no-op, in a namespace that is not opted out,
\* leads to a lease held by the number of a created PR, once the cooldown
\* is over.
C40_DueProposalIsLocked == ProposalDue ~> HeldByCreatedPR

\* the second PR was created after the cooldown that the merge of the first
\* one started, and holds the lease
C40_Witness ==
    /\ Held
    /\ TheLease.holder = FormatIdentity(2)
    /\ TheLease.lastModified # ZeroTime
    /\ prs[1] = "merged"
    /\ prs[2] = "open"
    /\ Now >= TheLease.lastModified + parseConfig(annotations).Cooldown

=============================================================================
